---- MODULE Spec2Model ----
(***************************************************************************)
(* A model of the shellrs interactive shell: the shell-syntax tokenizer    *)
(* (Shell::parse_shell_input), the redirection resolver                    *)
(* (Shell::process_redirections) and the REPL driver (Shell::run_repl,     *)
(* Shell::handle_input, Shell::eval, Shell::handle_eval_error) of          *)
(* src/src/app/shell.rs, with the output handles of src/src/app/output.rs  *)
(* and the error taxonomy of src/src/app/error.rs.                         *)
(*                                                                         *)
(* Characters are code points (integers); a string is a sequence of them.  *)
(* An Option is a sequence of length at most one: None is <<>> and         *)
(* Some(x) is <<x>>.                                                       *)
(***************************************************************************)
EXTENDS Integers, Sequences, FiniteSets, TLC

VARIABLES
  scan,          \* the tokenizer's loop state (SpecTok)
  redir,         \* the redirection resolver's loop state (SpecRedir)
  pc,            \* where the REPL's single control flow stands (Spec)
  termios,       \* the terminal's local-mode flags (c_lflag)
  tty,           \* the bytes the user has typed that /dev/tty has not delivered yet
  input,         \* the locals of Shell::handle_input while it runs
  input_buffer,  \* Shell::input_buffer
  stdout,        \* Shell::stdout
  stderr,        \* Shell::stderr
  term_out,      \* what has been written to the inherited standard output
  term_err,      \* what has been written to the inherited standard error
  fs,            \* the files redirections have created: path -> content
  cmd_registry,  \* Shell::cmd_registry
  dispatch,      \* the locals of Shell::eval from the stream swap on
  result,        \* the Result of the latest Shell::eval
  iter,          \* the number of lines run_repl has read
  ended,         \* how the process ended, None while it runs
  children,      \* the child processes the shell has spawned, in order
  call           \* a call of a single function: its arguments, then its value

callVars == <<call>>
tokVars == <<scan>>
redirVars == <<redir>>
replVars == <<pc, termios, tty, input, input_buffer, stdout, stderr, term_out,
              term_err, fs, cmd_registry, dispatch, result, iter, ended,
              children>>
vars == <<scan, redir, pc, termios, tty, input, input_buffer, stdout, stderr,
          term_out, term_err, fs, cmd_registry, dispatch, result, iter, ended,
          children, call>>

\* No call of a single function is followed.
CallIdle == [op |-> "none"]

\* The REPL's variables under the specifications that do not run the REPL.
ReplIdle ==
  /\ pc = "off"
  /\ termios = {}
  /\ tty = <<>>
  /\ input = <<>>
  /\ input_buffer = <<>>
  /\ stdout = <<>>
  /\ stderr = <<>>
  /\ term_out = <<>>
  /\ term_err = <<>>
  /\ fs = <<>>
  /\ cmd_registry = <<>>
  /\ dispatch = <<>>
  /\ result = <<>>
  /\ iter = 0
  /\ ended = <<>>
  /\ children = <<>>

(***************************************************************************)
(* Characters and string literals                                          *)
(***************************************************************************)
\* The code point of each character the model writes in a literal.
Code ==
  [ch \in {"'", "\"", "\\", " ", "\t", ">", "&", "1", "2", ".", "-", "[",
           "C", "D", "s", "u", "/", "k", "R", "A",
           "a", "b", "c", "d", "e", "f", "g", "h", "i", "l", "m", "n", "o",
           "p", "r", "t", "w", "x", "y", "z"} |->
     CASE ch = "\t" -> 9   [] ch = " " -> 32  [] ch = "\"" -> 34
       [] ch = "&" -> 38   [] ch = "'" -> 39  [] ch = "." -> 46
       [] ch = "1" -> 49   [] ch = "2" -> 50  [] ch = ">" -> 62
       [] ch = "\\" -> 92  [] ch = "-" -> 45  [] ch = "[" -> 91
       [] ch = "C" -> 67   [] ch = "D" -> 68  [] ch = "s" -> 115
       [] ch = "u" -> 117  [] ch = "/" -> 47
       [] ch = "k" -> 107  [] ch = "R" -> 82  [] ch = "A" -> 65
       [] ch = "a" -> 97   [] ch = "b" -> 98  [] ch = "c" -> 99
       [] ch = "d" -> 100  [] ch = "e" -> 101 [] ch = "f" -> 102
       [] ch = "g" -> 103  [] ch = "h" -> 104 [] ch = "i" -> 105
       [] ch = "l" -> 108  [] ch = "m" -> 109 [] ch = "n" -> 110
       [] ch = "o" -> 111  [] ch = "p" -> 112 [] ch = "r" -> 114
       [] ch = "t" -> 116  [] ch = "w" -> 119 [] ch = "x" -> 120
       [] ch = "y" -> 121  [] ch = "z" -> 122]

\* A string literal: the sequence of the code points of its characters.
Str(cs) == [i \in DOMAIN cs |-> Code[cs[i]]]

SQ == Code["'"]
DQ == Code["\""]
BSLASH == Code["\\"]
SPACE == Code[" "]
TAB == Code["\t"]

None == <<>>
Some(x) == <<x>>

\* All sequences over S of length at most n.
SeqsUpTo(S, n) == UNION {[1..k -> S] : k \in 0..n}

(***************************************************************************)
(* Shell::parse_shell_input: the tokenizer                                 *)
(***************************************************************************)
MaxLineLen == 4

\* The state of the scan before the first chars.next(): pos counts the
\* characters the iterator has yielded; c is the character bound by the
\* latest `while let Some(c)` (None before the first); done is set once the
\* loop has ended and the last token has been pushed.
TokStart(line) ==
  [line |-> line, pos |-> 0, tokens |-> <<>>, current |-> <<>>,
   in_single_quote |-> FALSE, in_double_quote |-> FALSE,
   c |-> None, done |-> FALSE]

\* The guard of the arm  '\'' if !in_double_quote.
SingleQuoteGuardUnguarded(s, ch) == ch = SQ
SingleQuoteGuard(s, ch) == ch = SQ /\ ~s.in_double_quote

\* The guard of the arm  '"' if !in_single_quote.
DoubleQuoteGuard(s, ch) == ch = DQ /\ ~s.in_single_quote

\* The guard of the arm  ' ' | '\t' if !in_single_quote && !in_double_quote.
SeparatorGuardInQuotes(s, ch) == ch \in {SPACE, TAB}
SeparatorGuard(s, ch) ==
  ch \in {SPACE, TAB} /\ ~s.in_single_quote /\ ~s.in_double_quote

\* The arm '\\': chars.next() is taken and, when there is one, pushed.
EscapeArmKeepsBackslash(s) ==
  IF s.pos + 1 < Len(s.line)
    THEN [s EXCEPT !.pos = s.pos + 2,
                   !.current = s.current \o <<BSLASH, s.line[s.pos + 2]>>]
    ELSE [s EXCEPT !.pos = s.pos + 1]
EscapeArm(s) ==
  IF s.pos + 1 < Len(s.line)
    THEN [s EXCEPT !.pos = s.pos + 2,
                   !.current = Append(s.current, s.line[s.pos + 2])]
    ELSE [s EXCEPT !.pos = s.pos + 1]

\* The inner loop of the separator arm: p characters have been yielded;
\* every following space or tab is taken too.
RECURSIVE SkipWhitespace(_, _)
SkipWhitespace(line, p) ==
  IF p < Len(line) /\ line[p + 1] \in {SPACE, TAB}
    THEN SkipWhitespace(line, p + 1)
    ELSE p

\* The separator arm: push the current token when it is not empty, clear
\* it, skip the rest of the whitespace run.
SeparatorArmPushesEmpty(s) ==
  [s EXCEPT !.tokens = Append(s.tokens, s.current),
            !.current = <<>>,
            !.pos = SkipWhitespace(s.line, s.pos + 1)]
SeparatorArm(s) ==
  [s EXCEPT !.tokens = IF s.current # <<>> THEN Append(s.tokens, s.current)
                                           ELSE s.tokens,
            !.current = <<>>,
            !.pos = SkipWhitespace(s.line, s.pos + 1)]

\* One iteration of `while let Some(c) = chars.next()`: the match on c.
TokStep(s) ==
  LET ch == s.line[s.pos + 1]
      t  == [s EXCEPT !.c = Some(ch)]
  IN  CASE SingleQuoteGuard(s, ch) ->
             [t EXCEPT !.pos = s.pos + 1,
                       !.in_single_quote = ~s.in_single_quote]
        [] ~SingleQuoteGuard(s, ch) /\ DoubleQuoteGuard(s, ch) ->
             [t EXCEPT !.pos = s.pos + 1,
                       !.in_double_quote = ~s.in_double_quote]
        [] ~SingleQuoteGuard(s, ch) /\ ~DoubleQuoteGuard(s, ch)
             /\ ch = BSLASH ->
             EscapeArm(t)
        [] ~SingleQuoteGuard(s, ch) /\ ~DoubleQuoteGuard(s, ch)
             /\ ch # BSLASH /\ SeparatorGuard(s, ch) ->
             SeparatorArm(t)
        [] OTHER ->
             [t EXCEPT !.pos = s.pos + 1, !.current = Append(s.current, ch)]

\* After the loop: a non-empty current token is pushed; tokens is returned.
TokFinishPushesAlways(s) ==
  [s EXCEPT !.tokens = Append(s.tokens, s.current), !.done = TRUE]
TokFinish(s) ==
  [s EXCEPT !.tokens = IF s.current # <<>> THEN Append(s.tokens, s.current)
                                           ELSE s.tokens,
            !.done = TRUE]

\* The whole function: the tokens of a line.
RECURSIVE TokRun(_)
TokRun(s) ==
  IF s.done THEN s
  ELSE IF s.pos < Len(s.line) THEN TokRun(TokStep(s))
  ELSE TokFinish(s)

parse_shell_input(line) == TokRun(TokStart(line)).tokens

\* The lines the tokenizer is checked on: every line of at most MaxLineLen
\* characters over the characters the match distinguishes and two ordinary
\* ones, and the two lines of the documented examples.
TokAlphabet == {SQ, DQ, BSLASH, SPACE, TAB, Code["a"], Code["b"]}

LineEchoQuoted ==
  Str(<<"e", "c", "h", "o", " ", "\"", "a", " ", "b", "\"", " ", "c">>)
LineEscapedSpace ==
  Str(<<"f", "o", "o", "\\", " ", "b", "a", "r", " ", "b", "a", "z">>)

TokLines == SeqsUpTo(TokAlphabet, MaxLineLen) \cup {LineEchoQuoted, LineEscapedSpace}

(***************************************************************************)
(* Shell::process_redirections: the redirection resolver                   *)
(***************************************************************************)
MaxTokens == 4

OpGt == Str(<<">">>)
Op1Gt == Str(<<"1", ">">>)
Op2Gt == Str(<<"2", ">">>)
OpAmpGt == Str(<<"&", ">">>)

\* The errors of ShellError (src/src/app/error.rs).
EmptyInput == [kind |-> "EmptyInput"]
CommandNotFound(command_name) ==
  [kind |-> "CommandNotFound", command_name |-> command_name]
CommandExecutionFail(msg) == [kind |-> "CommandExecutionFail", msg |-> msg]
ParsingFail(msg) == [kind |-> "ParsingFail", msg |-> msg]

Ok(v) == [ok |-> TRUE, value |-> v]
Err(e) == [ok |-> FALSE, error |-> e]

\* The state of the resolver before the first iter.next(): idx counts the
\* tokens the iterator has yielded; result is None while the loop runs and
\* Some(the returned Result) once the function has returned; eval is
\* Some(what Shell::eval does with that Result) once eval has looked at it.
RedirStart(tokens) ==
  [state |-> "scanning", tokens |-> tokens, idx |-> 0,
   command_tokens |-> <<>>, stdout_redirect |-> None, stderr_redirect |-> None,
   result |-> None, eval |-> None]

\* The error of an operator whose iter.next() is None.
MissingFileSameMessage(op) ==
  ParsingFail("no file specified for output redirection")
MissingFile(op) ==
  IF op = Op2Gt
    THEN ParsingFail("no file specified for error output redirection")
    ELSE ParsingFail("no file specified for output redirection")

\* `iter.next().ok_or_else(..)?` of an operator arm: the target, or the early
\* return of the error.
HasTarget(r) == r.idx + 2 <= Len(r.tokens)
Target(r) == r.tokens[r.idx + 2]
FailMissingFile(r, op) ==
  [r EXCEPT !.idx = r.idx + 1, !.state = "returned",
            !.result = Some(Err(MissingFile(op)))]

\* The arm "&>".
RedirectBothStdoutOnly(r) ==
  IF HasTarget(r)
    THEN [r EXCEPT !.idx = r.idx + 2, !.stdout_redirect = Some(Target(r))]
    ELSE FailMissingFile(r, OpAmpGt)
RedirectBoth(r) ==
  IF HasTarget(r)
    THEN [r EXCEPT !.idx = r.idx + 2,
                   !.stdout_redirect = Some(Target(r)),
                   !.stderr_redirect = Some(Target(r))]
    ELSE FailMissingFile(r, OpAmpGt)

\* The arm ">" | "1>".
RedirectStdoutRefusesOperator(r, op) ==
  IF HasTarget(r) /\ Target(r) \notin {OpGt, Op1Gt, Op2Gt, OpAmpGt}
    THEN [r EXCEPT !.idx = r.idx + 2, !.stdout_redirect = Some(Target(r))]
    ELSE FailMissingFile(r, op)
RedirectStdout(r, op) ==
  IF HasTarget(r)
    THEN [r EXCEPT !.idx = r.idx + 2, !.stdout_redirect = Some(Target(r))]
    ELSE FailMissingFile(r, op)

\* The arm "2>".
RedirectStderr(r) ==
  IF HasTarget(r)
    THEN [r EXCEPT !.idx = r.idx + 2, !.stderr_redirect = Some(Target(r))]
    ELSE FailMissingFile(r, Op2Gt)

\* The arm `_ => command_tokens.push(token)`.
PushCommandTokenInFront(r) ==
  [r EXCEPT !.idx = r.idx + 1,
            !.command_tokens = <<r.tokens[r.idx + 1]>> \o r.command_tokens]
PushCommandToken(r) ==
  [r EXCEPT !.idx = r.idx + 1,
            !.command_tokens = Append(r.command_tokens, r.tokens[r.idx + 1])]

\* One iteration of `while let Some(token) = iter.next()`: the match on
\* token.as_str().
RedirStep(r) ==
  LET token == r.tokens[r.idx + 1]
  IN  CASE token = OpAmpGt -> RedirectBoth(r)
        [] token \in {OpGt, Op1Gt} -> RedirectStdout(r, token)
        [] token = Op2Gt -> RedirectStderr(r)
        [] OTHER -> PushCommandToken(r)

\* After the loop: Ok((command_tokens, stdout_redirect, stderr_redirect)).
RedirFinish(r) ==
  [r EXCEPT !.state = "returned",
            !.result = Some(Ok([command_tokens |-> r.command_tokens,
                                stdout_redirect |-> r.stdout_redirect,
                                stderr_redirect |-> r.stderr_redirect]))]

RECURSIVE RedirRun(_)
RedirRun(r) ==
  IF r.state = "returned" THEN r
  ELSE IF r.idx < Len(r.tokens) THEN RedirRun(RedirStep(r))
  ELSE RedirFinish(r)

\* The whole function: the Result it returns.
process_redirections(tokens) == RedirRun(RedirStart(tokens)).result[1]

\* What Shell::eval does with the Result of process_redirections: `?` returns
\* the error; no command token is EmptyInput; otherwise eval goes on to look
\* the command up, with its name, its arguments and the two targets.
EvalAfterRedirections(res) ==
  IF ~res.ok
    THEN [next |-> "return", error |-> res.error]
  ELSE IF res.value.command_tokens = <<>>
    THEN [next |-> "return", error |-> EmptyInput]
  ELSE [next |-> "lookup", command_tokens |-> res.value.command_tokens,
        stdout_redirect |-> res.value.stdout_redirect,
        stderr_redirect |-> res.value.stderr_redirect]

\* The token sequences the resolver is checked on: every sequence of at most
\* MaxTokens tokens over the four operators, three ordinary tokens and a token
\* that only starts like an operator, and the documented example.
RedirAlphabet ==
  {OpGt, Op1Gt, Op2Gt, OpAmpGt,
   Str(<<"a">>), Str(<<"f">>), Str(<<"g">>), Str(<<">", "f">>)}

TokCmd == Str(<<"c", "m", "d">>)
TokArg == Str(<<"a", "r", "g">>)
TokErrLog == Str(<<"e", "r", "r", ".", "l", "o", "g">>)
TokensErrLog == <<TokCmd, TokArg, Op2Gt, TokErrLog>>

RedirInputs == SeqsUpTo(RedirAlphabet, MaxTokens) \cup {TokensErrLog}

ScanIdle == [state |-> "idle"]

InitRedir ==
  /\ redir \in {RedirStart(tokens) : tokens \in RedirInputs}
  /\ scan = ScanIdle
  /\ ReplIdle
  /\ call = CallIdle

\* One iteration of the resolver's loop.
RedirScan ==
  /\ redir.state = "scanning"
  /\ redir.idx < Len(redir.tokens)
  /\ redir' = RedirStep(redir)
  /\ UNCHANGED <<callVars, tokVars, replVars>>

\* The end of the loop: the Ok result is returned.
RedirEnd ==
  /\ redir.state = "scanning"
  /\ redir.idx >= Len(redir.tokens)
  /\ redir' = RedirFinish(redir)
  /\ UNCHANGED <<callVars, tokVars, replVars>>

\* Shell::eval receives the Result.
RedirEval ==
  /\ redir.state = "returned"
  /\ redir' = [redir EXCEPT !.state = "evaluated",
                            !.eval = Some(EvalAfterRedirections(redir.result[1]))]
  /\ UNCHANGED <<callVars, tokVars, replVars>>

NextRedir == RedirScan \/ RedirEnd \/ RedirEval

SpecRedir == InitRedir /\ [][NextRedir]_vars

RedirIdle == [state |-> "idle"]

InitTok ==
  /\ scan \in {TokStart(line) : line \in TokLines}
  /\ redir = RedirIdle
  /\ ReplIdle
  /\ call = CallIdle

\* One iteration of the tokenizer's loop.
TokScan ==
  /\ ~scan.done
  /\ scan.pos < Len(scan.line)
  /\ scan' = TokStep(scan)
  /\ UNCHANGED <<callVars, redirVars, replVars>>

\* The end of the loop and the last push.
TokEnd ==
  /\ ~scan.done
  /\ scan.pos >= Len(scan.line)
  /\ scan' = TokFinish(scan)
  /\ UNCHANGED <<callVars, redirVars, replVars>>

NextTok == TokScan \/ TokEnd

SpecTok == InitTok /\ [][NextTok]_vars

\* The loop is sequential code: its next iteration, or its end, is always
\* taken.
SpecTokRuns == SpecTok /\ WF_vars(NextTok)

(***************************************************************************)
(* Levenshtein (src/levenshtein/src/lib.rs)                                *)
(***************************************************************************)
Min(a, b) == IF a < b THEN a ELSE b

\* The inner loop `for i in 1..=s_len` of Levenshtein::distance, from i on:
\* dp is the row (dp[k] of the code is dp[k + 1] here), prev the diagonal.
RECURSIVE DistanceRow(_, _, _, _, _, _)
DistanceRowKeepsCell(s, t, j, i, dp, prev) ==
  IF i > Len(s) THEN dp
  ELSE LET temp == dp[i + 1]
           cell == IF s[i] = t[j]
                     THEN temp
                     ELSE 1 + Min(prev, Min(dp[i], dp[i + 1]))
       IN  DistanceRow(s, t, j, i + 1, [dp EXCEPT ![i + 1] = cell], temp)
DistanceRowNoSubstitution(s, t, j, i, dp, prev) ==
  IF i > Len(s) THEN dp
  ELSE LET temp == dp[i + 1]
           cell == IF s[i] = t[j]
                     THEN prev
                     ELSE 1 + Min(dp[i], dp[i + 1])
       IN  DistanceRow(s, t, j, i + 1, [dp EXCEPT ![i + 1] = cell], temp)
DistanceRow(s, t, j, i, dp, prev) ==
  IF i > Len(s) THEN dp
  ELSE LET temp == dp[i + 1]
           cell == IF s[i] = t[j]
                     THEN prev
                     ELSE 1 + Min(prev, Min(dp[i], dp[i + 1]))
       IN  DistanceRow(s, t, j, i + 1, [dp EXCEPT ![i + 1] = cell], temp)

\* The outer loop `for j in 1..=t_len`, from j on.
RECURSIVE DistanceRows(_, _, _, _)
DistanceRows(s, t, j, dp) ==
  IF j > Len(t) THEN dp
  ELSE DistanceRows(s, t, j + 1,
                    DistanceRow(s, t, j, 1, [dp EXCEPT ![1] = j], dp[1]))

\* Levenshtein::distance.
distance(s, t) ==
  IF Len(s) = 0 THEN Len(t)
  ELSE IF Len(t) = 0 THEN Len(s)
  ELSE DistanceRows(s, t, 1, [k \in 1..(Len(s) + 1) |-> k - 1])[Len(s) + 1]

\* usize::MAX, the start of the running minimum: a distance is at most the
\* length of the longer string, so the largest integer TLC holds
\* stands for it.
UsizeMax == 2147483647

\* The loop of Levenshtein::get_closest_with_threshold over vars, from k on.
RECURSIVE ClosestFrom(_, _, _, _, _)
ClosestFromLastMinimum(s, candidates, k, min_distance, closest) ==
  IF k > Len(candidates)
    THEN [min_distance |-> min_distance, closest |-> closest]
  ELSE LET d == distance(s, candidates[k])
       IN  IF d <= min_distance
             THEN ClosestFrom(s, candidates, k + 1, d, Some(candidates[k]))
             ELSE ClosestFrom(s, candidates, k + 1, min_distance, closest)
ClosestFrom(s, candidates, k, min_distance, closest) ==
  IF k > Len(candidates)
    THEN [min_distance |-> min_distance, closest |-> closest]
  ELSE LET d == distance(s, candidates[k])
       IN  IF d < min_distance
             THEN ClosestFrom(s, candidates, k + 1, d, Some(candidates[k]))
             ELSE ClosestFrom(s, candidates, k + 1, min_distance, closest)

\* Levenshtein::get_closest: the same loop, and no threshold.
get_closest(s, candidates) ==
  ClosestFrom(s, candidates, 1, UsizeMax, None).closest

\* Levenshtein::get_closest_with_threshold.
get_closest_with_threshold(s, candidates, threshold) ==
  LET found == ClosestFrom(s, candidates, 1, UsizeMax, None)
  IN  IF found.min_distance <= threshold THEN found.closest ELSE None

(***************************************************************************)
(* CommandsRegistry (src/src/commands/registry.rs)                         *)
(***************************************************************************)
NameExit == Str(<<"e", "x", "i", "t">>)
NameEcho == Str(<<"e", "c", "h", "o">>)
NameType == Str(<<"t", "y", "p", "e">>)
NamePwd == Str(<<"p", "w", "d">>)
NameCd == Str(<<"c", "d">>)
NameLs == Str(<<"l", "s">>)

Builtin(name) == [kind |-> "Builtin", name |-> name]
External(name, path) == [kind |-> "External", name |-> name, path |-> path]

\* The builtins CommandsRegistry::default registers in a release build.
BuiltinCommands ==
  [name \in {NameExit, NameEcho, NameType, NamePwd, NameCd} |-> Builtin(name)]

\* The executables of the PATH directories of the modelled environment, as
\* register_external records them: ls, and an echo that the builtin shadows.
ExternalCommands ==
  [name \in {NameLs, NameEcho} |->
     External(name, IF name = NameLs THEN "/bin/ls" ELSE "/bin/echo")]

\* The order of String: bytewise lexicographic.
RECURSIVE StrLess(_, _)
StrLess(a, b) ==
  IF b = <<>> THEN FALSE
  ELSE IF a = <<>> THEN TRUE
  ELSE IF a[1] # b[1] THEN a[1] < b[1]
  ELSE StrLess(Tail(a), Tail(b))

\* names.sort(): the names in ascending order.
RECURSIVE SortNames(_)
SortNames(names) ==
  IF names = <<>> THEN <<>>
  ELSE LET least == CHOOSE k \in DOMAIN names :
                      \A j \in DOMAIN names : ~StrLess(names[j], names[k])
       IN  <<names[least]>> \o
           SortNames([j \in 1..(Len(names) - 1) |->
                        IF j < least THEN names[j] ELSE names[j + 1]])

\* The keys of a map in some iteration order.
RECURSIVE Keys(_)
Keys(S) ==
  IF S = {} THEN <<>>
  ELSE LET k == CHOOSE x \in S : TRUE IN <<k>> \o Keys(S \ {k})

\* CommandsRegistry::populate_registered_names: the builtin keys, then the
\* external keys, sorted.
populate_registered_names(builtin, external) ==
  SortNames(Keys(DOMAIN builtin) \o Keys(DOMAIN external))

\* The registry CommandsRegistry::default returns.
DefaultRegistry ==
  [builtin |-> BuiltinCommands,
   external |-> ExternalCommands,
   registered_names |-> populate_registered_names(BuiltinCommands, ExternalCommands)]

\* CommandsRegistry::get_command: builtin first, then external.
get_command_external_first(reg, name) ==
  IF name \in DOMAIN reg.external THEN Some(reg.external[name])
  ELSE IF name \in DOMAIN reg.builtin THEN Some(reg.builtin[name])
  ELSE None
get_command(reg, name) ==
  IF name \in DOMAIN reg.builtin THEN Some(reg.builtin[name])
  ELSE IF name \in DOMAIN reg.external THEN Some(reg.external[name])
  ELSE None

(***************************************************************************)
(* ShellOutput (src/src/app/output.rs) and what it writes to               *)
(***************************************************************************)
\* ShellOutput::stdout(), ShellOutput::stderr(), and the File of
\* ShellOutput::file(path): a fresh open file at offset 0.
StdoutHandle == [kind |-> "Stdout"]
StderrHandle == [kind |-> "Stderr"]
FileHandle(path) == [kind |-> "File", path |-> path, offset |-> 0]

\* File::create(path): the file exists and is empty.
CreateFile(files, path) ==
  [q \in DOMAIN files \cup {path} |-> IF q = path THEN <<>> ELSE files[q]]

\* A write of one line at a file offset (content and offsets count lines).
WriteAt(content, offset, line) ==
  IF offset < Len(content)
    THEN [content EXCEPT ![offset + 1] = line]
    ELSE Append(content, line)

\* The two handles and what they write to, as one value.
Streams ==
  [stdout |-> stdout, stderr |-> stderr,
   term_out |-> term_out, term_err |-> term_err, fs |-> fs]

\* ShellOutput::writeln on the handle `which` ("stdout" or "stderr") of w.
writelnSharedPosition(w, which, line) ==
  LET h == w[which]
      Moved(g) == IF g.kind = "File" /\ g.path = h.path
                    THEN [g EXCEPT !.offset = @ + 1] ELSE g
  IN  CASE h.kind = "Stdout" -> [w EXCEPT !.term_out = Append(@, line)]
        [] h.kind = "Stderr" -> [w EXCEPT !.term_err = Append(@, line)]
        [] h.kind = "File" ->
             [w EXCEPT !.stdout = Moved(@),
                       !.stderr = Moved(@),
                       !.fs[h.path] = WriteAt(@, h.offset, line)]
writeln(w, which, line) ==
  LET h == w[which]
  IN  CASE h.kind = "Stdout" -> [w EXCEPT !.term_out = Append(@, line)]
        [] h.kind = "Stderr" -> [w EXCEPT !.term_err = Append(@, line)]
        [] h.kind = "File" ->
             [w EXCEPT ![which].offset = @ + 1,
                       !.fs[h.path] = WriteAt(@, h.offset, line)]

\* The lines the shell writes. A line is a pair of its format string and the
\* argument formatted into it.
NotFoundLine(command_name) == <<"{}: command not found", command_name>>
DidYouMeanLine(closest) == <<"did you mean \"{}\"?", closest>>
\* Display of CommandExecutionFail and ParsingFail: the message in red.
ErrorLine(err) == <<"\\x1b[31m{}\\x1b[0m", err.msg>>

\* args.join(" ")
RECURSIVE Join(_)
Join(args) ==
  IF args = <<>> THEN <<>>
  ELSE IF Len(args) = 1 THEN args[1]
  ELSE args[1] \o <<SPACE>> \o Join(Tail(args))

(***************************************************************************)
(* Shell::handle_input: the raw-mode line editor                           *)
(***************************************************************************)
LF == 10
CR == 13
ESC == 27
DEL == 127
BS == 8
EOT == 4

\* The local-mode flags of the terminal the model tells apart.
ICANON == "ICANON"
ECHO == "ECHO"
ISIG == "ISIG"

\* Shell::disable_canonical_echo: c_lflag &= !(ICANON | ECHO).
disable_canonical_echo(term) == term \ {ICANON, ECHO}

\* u8::is_ascii and u8::is_ascii_control.
is_ascii(b) == b < 128
is_ascii_control(b) == b < 32 \/ b = 127

\* String::insert and String::remove at a byte index (0-based); the buffer
\* holds ASCII only, one byte a character.
StringInsert(buffer, idx, ch) ==
  SubSeq(buffer, 1, idx) \o <<ch>> \o SubSeq(buffer, idx + 1, Len(buffer))
StringRemove(buffer, idx) ==
  SubSeq(buffer, 1, idx) \o SubSeq(buffer, idx + 2, Len(buffer))

\* The match of one loop iteration of handle_input on a byte b that does not
\* end the loop; seq is what the second read delivered after an ESC.
EditByteRightUnclamped(ed, b, seq) ==
  CASE b = ESC ->
         IF Len(seq) < 2 THEN ed
         ELSE IF seq[1] # Code["["] THEN ed
         ELSE IF seq[2] = Code["D"]
           THEN (IF ed.cursor_pos > 0
                   THEN [ed EXCEPT !.cursor_pos = @ - 1] ELSE ed)
         ELSE IF seq[2] = Code["C"]
           THEN [ed EXCEPT !.cursor_pos = @ + 1]
         ELSE ed
    [] b \in {DEL, BS} ->
         IF ed.cursor_pos > 0
           THEN [ed EXCEPT !.buffer = StringRemove(@, ed.cursor_pos - 1),
                           !.cursor_pos = @ - 1]
           ELSE ed
    [] b \notin {ESC, DEL, BS} /\ is_ascii(b) /\ ~is_ascii_control(b) ->
         [ed EXCEPT !.buffer = StringInsert(@, ed.cursor_pos, b),
                    !.cursor_pos = @ + 1]
    [] OTHER -> ed
EditByteAppends(ed, b, seq) ==
  CASE b = ESC ->
         IF Len(seq) < 2 THEN ed
         ELSE IF seq[1] # Code["["] THEN ed
         ELSE IF seq[2] = Code["D"]
           THEN (IF ed.cursor_pos > 0
                   THEN [ed EXCEPT !.cursor_pos = @ - 1] ELSE ed)
         ELSE IF seq[2] = Code["C"]
           THEN (IF ed.cursor_pos < Len(ed.buffer)
                   THEN [ed EXCEPT !.cursor_pos = @ + 1] ELSE ed)
         ELSE ed
    [] b \in {DEL, BS} ->
         IF ed.cursor_pos > 0
           THEN [ed EXCEPT !.buffer = StringRemove(@, ed.cursor_pos - 1),
                           !.cursor_pos = @ - 1]
           ELSE ed
    [] b \notin {ESC, DEL, BS} /\ is_ascii(b) /\ ~is_ascii_control(b) ->
         [ed EXCEPT !.buffer = Append(@, b),
                    !.cursor_pos = @ + 1]
    [] OTHER -> ed
EditByteKeepsAfterEsc(ed, b, seq) ==
  CASE b = ESC ->
         IF Len(seq) < 2 THEN ed
         ELSE IF seq[1] # Code["["]
           THEN (IF is_ascii(seq[2]) /\ ~is_ascii_control(seq[2])
                   THEN [ed EXCEPT !.buffer = StringInsert(@, ed.cursor_pos, seq[2]),
                                   !.cursor_pos = @ + 1]
                   ELSE ed)
         ELSE IF seq[2] = Code["D"]
           THEN (IF ed.cursor_pos > 0
                   THEN [ed EXCEPT !.cursor_pos = @ - 1] ELSE ed)
         ELSE IF seq[2] = Code["C"]
           THEN (IF ed.cursor_pos < Len(ed.buffer)
                   THEN [ed EXCEPT !.cursor_pos = @ + 1] ELSE ed)
         ELSE ed
    [] b \in {DEL, BS} ->
         IF ed.cursor_pos > 0
           THEN [ed EXCEPT !.buffer = StringRemove(@, ed.cursor_pos - 1),
                           !.cursor_pos = @ - 1]
           ELSE ed
    [] b \notin {ESC, DEL, BS} /\ is_ascii(b) /\ ~is_ascii_control(b) ->
         [ed EXCEPT !.buffer = StringInsert(@, ed.cursor_pos, b),
                    !.cursor_pos = @ + 1]
    [] OTHER -> ed
EditByte(ed, b, seq) ==
  CASE b = ESC ->
         IF Len(seq) < 2 THEN ed
         ELSE IF seq[1] # Code["["] THEN ed
         ELSE IF seq[2] = Code["D"]
           THEN (IF ed.cursor_pos > 0
                   THEN [ed EXCEPT !.cursor_pos = @ - 1] ELSE ed)
         ELSE IF seq[2] = Code["C"]
           THEN (IF ed.cursor_pos < Len(ed.buffer)
                   THEN [ed EXCEPT !.cursor_pos = @ + 1] ELSE ed)
         ELSE ed
    [] b \in {DEL, BS} ->
         IF ed.cursor_pos > 0
           THEN [ed EXCEPT !.buffer = StringRemove(@, ed.cursor_pos - 1),
                           !.cursor_pos = @ - 1]
           ELSE ed
    [] b \notin {ESC, DEL, BS} /\ is_ascii(b) /\ ~is_ascii_control(b) ->
         [ed EXCEPT !.buffer = StringInsert(@, ed.cursor_pos, b),
                    !.cursor_pos = @ + 1]
    [] OTHER -> ed

(***************************************************************************)
(* The builtins (src/src/commands/builtins)                                *)
(***************************************************************************)
Digits == 48..57

RECURSIVE DigitsValue(_)
DigitsValue(ds) ==
  IF ds = <<>> THEN 0
  ELSE 10 * DigitsValue(SubSeq(ds, 1, Len(ds) - 1)) + (ds[Len(ds)] - 48)

\* The digits of 2^31 - 1 and of 2^31, the largest magnitudes of an i32.
I32MaxDigits == <<50, 49, 52, 55, 52, 56, 51, 54, 52, 55>>
I32MinDigits == <<50, 49, 52, 55, 52, 56, 51, 54, 52, 56>>

RECURSIVE StripZeros(_)
StripZeros(ds) ==
  IF ds # <<>> /\ ds[1] = 48 THEN StripZeros(Tail(ds)) ELSE ds

\* The magnitude written by ds exceeds the one written by limit.
Exceeds(ds, limit) ==
  LET m == StripZeros(ds)
  IN  \/ Len(m) > Len(limit)
      \/ Len(m) = Len(limit) /\ StrLess(limit, m)

\* str::parse::<i32>: an optional sign, then digits, within the range of i32.
ParseI32(arg) ==
  LET signed   == arg # <<>> /\ arg[1] \in {Code["-"], 43}
      negative == arg # <<>> /\ arg[1] = Code["-"]
      ds       == IF signed THEN Tail(arg) ELSE arg
  IN  IF arg = <<>> THEN Err("cannot parse integer from empty string")
      ELSE IF ds = <<>> \/ \E k \in DOMAIN ds : ds[k] \notin Digits
        THEN Err("invalid digit found in string")
      ELSE IF ~negative /\ Exceeds(ds, I32MaxDigits)
        THEN Err("number too large to fit in target type")
      ELSE IF negative /\ Exceeds(ds, I32MinDigits)
        THEN Err("number too small to fit in target type")
      ELSE IF negative /\ StripZeros(ds) = I32MinDigits
        THEN Ok(0 - 2147483647 - 1)
      ELSE Ok(IF negative THEN 0 - DigitsValue(ds) ELSE DigitsValue(ds))

\* What std::env::current_dir() displays as: some path.
CurrentDir == Str(<<"/", "a">>)

\* What a builtin other than a successful exit can do when it is run with
\* args: the Result it returns, the lines it writes to the shell's stdout and
\* the lines it prints to the process's standard output. Whether a directory
\* can be entered or the current directory read is the environment's choice.
BuiltinOutcomes(name, args, reg) ==
  CASE name = NameEcho ->
         {[result |-> Ok(<<>>), writes |-> <<<<"{}", Join(args)>>>>, prints |-> <<>>]}
    [] name = NamePwd ->
         {[result |-> Ok(<<>>), writes |-> <<<<"{}", CurrentDir>>>>, prints |-> <<>>],
          [result |-> Err(CommandExecutionFail("<os error>")),
           writes |-> <<>>, prints |-> <<>>]}
    [] name = NameCd ->
         {[result |-> Ok(<<>>), writes |-> <<>>, prints |-> <<>>],
          [result |-> Err(CommandExecutionFail("<os error>")),
           writes |-> <<>>, prints |-> <<>>]}
    [] name = NameType ->
         IF args = <<>>
           THEN {[result |-> Err(CommandExecutionFail(
                                   "example usage: type <command name>")),
                  writes |-> <<>>, prints |-> <<>>]}
           ELSE {[result |-> Ok(<<>>), writes |-> <<>>,
                  prints |-> IF get_command(reg, args[1]) # None
                               THEN <<<<"<type message of {}>", args[1]>>>>
                               ELSE <<<<"{}: not found", args[1]>>>>]}
    [] name = NameExit ->
         IF args # <<>> /\ ~ParseI32(args[1]).ok
           THEN {[result |-> Err(CommandExecutionFail(ParseI32(args[1]).error)),
                  writes |-> <<>>, prints |-> <<>>]}
           ELSE {}

\* The status ExitCommand::run passes to std::process::exit, if it exits.
ExitStatusAlwaysZero(args) == Some(0)
ExitStatus(args) ==
  IF args = <<>> THEN Some(0)
  ELSE IF ParseI32(args[1]).ok THEN Some(ParseI32(args[1]).value)
  ELSE None

(***************************************************************************)
(* Shell::eval, Shell::handle_eval_error, Shell::run_repl                  *)
(***************************************************************************)
MaxIter == 2

\* Shell::eval up to the stream swap: the error it returns, or the command it
\* is about to run with its arguments and the two redirection targets.
EvalPlan(reg, line) ==
  LET tokens == parse_shell_input(line)
  IN  IF tokens = <<>> THEN [next |-> "return", error |-> EmptyInput]
      ELSE LET after == EvalAfterRedirections(process_redirections(tokens))
           IN  IF after.next = "return" THEN after
               ELSE LET command_name == after.command_tokens[1]
                        command == get_command(reg, command_name)
                    IN  IF command = None
                          THEN [next |-> "return",
                                error |-> CommandNotFound(command_name)]
                          ELSE [next |-> "dispatch",
                                command |-> command[1],
                                args |-> Tail(after.command_tokens),
                                stdout_redirect |-> after.stdout_redirect,
                                stderr_redirect |-> after.stderr_redirect]

\* `redirect.map(|file| mem::replace(&mut self.<which>, ShellOutput::file(file)))`
\* when File::create succeeds: the file is created or truncated, the handle
\* replaced.
SwapIn(w, which, redirect) ==
  IF redirect = None THEN w
  ELSE [w EXCEPT ![which] = FileHandle(redirect[1]),
                 !.fs = CreateFile(@, redirect[1])]

\* What the map returns: the handle that was replaced, if any.
Replaced(w, which, redirect) ==
  IF redirect = None THEN None ELSE Some(w[which])

\* "restore original outputs", whatever the Result of the command.
RestoreStreamsUnlessFailed(w, d, res) ==
  IF ~res.ok THEN w
  ELSE [w EXCEPT !.stdout = IF d.original_stdout # None
                              THEN d.original_stdout[1] ELSE @,
                 !.stderr = IF d.original_stderr # None
                              THEN d.original_stderr[1] ELSE @]
RestoreStreams(w, d, res) ==
  [w EXCEPT !.stdout = IF d.original_stdout # None
                         THEN d.original_stdout[1] ELSE @,
            !.stderr = IF d.original_stderr # None
                         THEN d.original_stderr[1] ELSE @]

\* The lines of a sequence written one after the other to a handle of w.
RECURSIVE WriteAll(_, _, _)
WriteAll(w, which, lines) ==
  IF lines = <<>> THEN w
  ELSE WriteAll(writeln(w, which, lines[1]), which, Tail(lines))

\* The threshold of the suggestion: 1 for a name shorter than 4, else 2.
levenshtein_threshold_up_to_four(command_name) ==
  IF Len(command_name) <= 4 THEN 1 ELSE 2
levenshtein_threshold(command_name) == IF Len(command_name) < 4 THEN 1 ELSE 2

\* Shell::handle_eval_error (a release build: dprintln_err! prints nothing).
handle_eval_error_silent_not_found(w, error, reg) ==
  CASE error.kind = "CommandNotFound" -> w
    [] error.kind = "EmptyInput" -> w
    [] OTHER -> writeln(w, "stderr", ErrorLine(error))
handle_eval_error(w, error, reg) ==
  CASE error.kind = "CommandNotFound" ->
         LET w1 == writeln(w, "stderr", NotFoundLine(error.command_name))
             closest == get_closest_with_threshold(
                          error.command_name, reg.registered_names,
                          levenshtein_threshold(error.command_name))
         IN  IF closest # None
               THEN writeln(w1, "stderr", DidYouMeanLine(closest[1]))
               ELSE w1
    [] error.kind = "EmptyInput" -> w
    [] OTHER -> writeln(w, "stderr", ErrorLine(error))

Panic(at, during) == Some([by |-> "panic", at |-> at, during |-> during])
Exit(status) == Some([by |-> "exit", status |-> status])

\* The keystrokes of a line: tokens joined by single spaces.
Typed(tokens) == Join(tokens)
TokA == Str(<<"a">>)
TokF == Str(<<"f">>)
TokG == Str(<<"g">>)
NameEhco == Str(<<"e", "h", "c", "o">>)
NameZz == Str(<<"z", "z">>)

\* What the user types for one prompt, as the bytes /dev/tty delivers: lines
\* of every outcome of eval, with and without redirections, ended by a
\* newline, a carriage return, EOT, or the end of the input.
Scripts ==
  { <<LF>>,
    <<SPACE, LF>>,
    Typed(<<OpGt, TokF>>) \o <<LF>>,
    Typed(<<NameEcho, OpGt>>) \o <<LF>>,
    Typed(<<NameEcho, Op2Gt>>) \o <<CR>>,
    Typed(<<NameEcho, TokA>>) \o <<LF>>,
    Typed(<<NameEcho, TokA, OpGt, TokF>>) \o <<LF>>,
    Typed(<<NameEcho, TokA, Op2Gt, TokF>>) \o <<LF>>,
    Typed(<<NameEcho, TokA, OpAmpGt, TokF>>) \o <<LF>>,
    Typed(<<NamePwd>>) \o <<LF>>,
    Typed(<<NameCd>>) \o <<LF>>,
    Typed(<<NameCd, TokA, Op2Gt, TokF>>) \o <<LF>>,
    Typed(<<NameType>>) \o <<LF>>,
    Typed(<<NameType, NameCd, Op1Gt, TokG>>) \o <<LF>>,
    Typed(<<NameExit>>) \o <<LF>>,
    Typed(<<NameExit, Str(<<"2">>)>>) \o <<LF>>,
    Typed(<<NameExit, TokA, OpGt, TokF>>) \o <<LF>>,
    Typed(<<NameExit, <<Code["-"], 49>>, TokA>>) \o <<LF>>,
    Typed(<<NameExit, I32MinDigits>>) \o <<LF>>,
    Typed(<<NameLs>>) \o <<LF>>,
    Typed(<<NameLs, OpGt, TokF>>) \o <<LF>>,
    Typed(<<NameLs, OpAmpGt, TokG>>) \o <<LF>>,
    Typed(<<NameEhco>>) \o <<LF>>,
    Typed(<<NameZz>>) \o <<LF>>,
    Typed(<<NameEhco, Op2Gt, TokF>>) \o <<LF>>,
    Str(<<"c", "x">>) \o <<DEL>> \o Str(<<"d">>) \o <<LF>>,
    Str(<<"d">>) \o <<ESC>> \o Str(<<"[", "D", "c">>) \o <<LF>>,
    NameCd \o <<EOT>>,
    NameCd,
    NameCd \o <<ESC>> \o Str(<<"[">>) }

\* The local modes the terminal may be in when the shell starts.
TermModes == {{ICANON, ECHO, ISIG}, {ICANON, ISIG}}

Init ==
  /\ scan = ScanIdle
  /\ redir = RedirIdle
  /\ pc = "idle"
  /\ termios \in TermModes
  /\ tty = <<>>
  /\ input = None
  /\ input_buffer = <<>>
  /\ stdout = StdoutHandle
  /\ stderr = StderrHandle
  /\ term_out = <<>>
  /\ term_err = <<>>
  /\ fs = <<>>
  /\ cmd_registry = DefaultRegistry
  /\ dispatch = None
  /\ result = None
  /\ iter = 0
  /\ ended = None
  /\ children = <<>>
  /\ call = CallIdle

outVars == <<stdout, stderr, term_out, term_err, fs>>

\* handle_input up to its loop: the terminal's settings are saved and the
\* terminal is put into raw mode; the user types a line.
EnterRaw ==
  /\ pc = "idle"
  /\ iter < MaxIter
  /\ \E script \in Scripts : tty' = tty \o script
  /\ input' = Some([original_termios |-> termios, buffer |-> <<>>, cursor_pos |-> 0])
  /\ termios' = disable_canonical_echo(termios)
  /\ pc' = "reading"
  /\ UNCHANGED <<callVars, tokVars, redirVars, children, input_buffer, outVars, cmd_registry,
                 dispatch, result, iter, ended>>

\* get_termios or the first set_termios fails: unwrap panics; the terminal is
\* as it was.
EnterRawFails ==
  /\ pc = "idle"
  /\ iter < MaxIter
  /\ pc' = "panicked"
  /\ ended' = Panic("termios", "handle_input")
  /\ UNCHANGED <<callVars, tokVars, redirVars, children, termios, tty, input, input_buffer, outVars,
                 cmd_registry, dispatch, result, iter>>

\* The end of handle_input's loop: set_termios(original) either restores the
\* terminal, and the buffer is returned to run_repl, or fails, and expect
\* panics.
LeaveRawStaysRaw(restored) ==
  IF restored
    THEN /\ input_buffer' = input[1].buffer
         /\ input' = None
         /\ iter' = iter + 1
         /\ pc' = "eval"
         /\ UNCHANGED <<termios, ended>>
    ELSE /\ pc' = "panicked"
         /\ ended' = Panic("failed to restore terminal settings", "handle_input")
         /\ UNCHANGED <<termios, input_buffer, input, iter>>
LeaveRaw(restored) ==
  IF restored
    THEN /\ termios' = input[1].original_termios
         /\ input_buffer' = input[1].buffer
         /\ input' = None
         /\ iter' = iter + 1
         /\ pc' = "eval"
         /\ UNCHANGED ended
    ELSE /\ pc' = "panicked"
         /\ ended' = Panic("failed to restore terminal settings", "handle_input")
         /\ UNCHANGED <<termios, input_buffer, input, iter>>

\* One iteration of handle_input's loop on a byte the terminal delivers.
ReadByte ==
  /\ pc = "reading"
  /\ tty # <<>>
  /\ LET b == Head(tty)
     IN  \/ /\ b \in {LF, CR, EOT}
            /\ tty' = Tail(tty)
            /\ \E restored \in BOOLEAN : LeaveRaw(restored)
         \/ /\ b = ESC
            /\ \E n \in (IF Len(tty) = 1 THEN {0} ELSE 1..Min(2, Len(tty) - 1)) :
                 /\ tty' = SubSeq(tty, 2 + n, Len(tty))
                 /\ input' = Some(EditByte(input[1], b, SubSeq(tty, 2, 1 + n)))
            /\ UNCHANGED <<termios, input_buffer, iter, pc, ended>>
         \/ /\ b \notin {LF, CR, EOT, ESC}
            /\ tty' = Tail(tty)
            /\ input' = Some(EditByte(input[1], b, <<>>))
            /\ UNCHANGED <<termios, input_buffer, iter, pc, ended>>
  /\ UNCHANGED <<callVars, tokVars, redirVars, children, outVars, cmd_registry, dispatch, result>>

\* The terminal has no more input: read returns 0 and the loop ends.
ReadEof ==
  /\ pc = "reading"
  /\ tty = <<>>
  /\ \E restored \in BOOLEAN : LeaveRaw(restored)
  /\ UNCHANGED <<callVars, tokVars, redirVars, children, tty, outVars, cmd_registry, dispatch, result>>

\* A read of the terminal fails: unwrap panics inside the loop.
ReadFails ==
  /\ pc = "reading"
  /\ pc' = "panicked"
  /\ ended' = Panic("tty read", "handle_input")
  /\ UNCHANGED <<callVars, tokVars, redirVars, children, termios, tty, input, input_buffer, outVars,
                 cmd_registry, dispatch, result, iter>>

\* The values of the stream variables after a step, from a record of them.
SetStreams(w) ==
  /\ stdout' = w.stdout
  /\ stderr' = w.stderr
  /\ term_out' = w.term_out
  /\ term_err' = w.term_err
  /\ fs' = w.fs

\* Shell::eval returns an error before it runs anything: the line is empty,
\* its redirections are malformed, it holds redirections only, or no command
\* has the name.
EvalReturnsErrorAfterSwap ==
  /\ pc = "eval"
  /\ LET tokens == parse_shell_input(input_buffer)
         after == IF tokens = <<>> THEN [next |-> "return", error |-> EmptyInput]
                  ELSE EvalAfterRedirections(process_redirections(tokens))
         plan == EvalPlan(cmd_registry, input_buffer)
     IN  /\ plan.next = "return"
         /\ result' = Some(Err(plan.error))
         /\ IF after.next = "return" THEN UNCHANGED outVars
            ELSE LET w1 == SwapIn(Streams, "stdout", after.stdout_redirect)
                     w2 == SwapIn(w1, "stderr", after.stderr_redirect)
                 IN  SetStreams(RestoreStreams(
                       w2,
                       [original_stdout |->
                          Replaced(Streams, "stdout", after.stdout_redirect),
                        original_stderr |->
                          Replaced(w1, "stderr", after.stderr_redirect)],
                       Err(plan.error)))
  /\ pc' = "report"
  /\ UNCHANGED <<callVars, tokVars, redirVars, children, termios, tty, input, input_buffer,
                 cmd_registry, dispatch, iter, ended>>
EvalReturnsErrorRehashes ==
  /\ pc = "eval"
  /\ LET plan == EvalPlan(cmd_registry, input_buffer)
     IN  /\ plan.next = "return"
         /\ result' = Some(Err(plan.error))
         /\ cmd_registry' =
              IF plan.error.kind = "CommandNotFound"
                THEN [cmd_registry EXCEPT !.registered_names = Tail(@)]
                ELSE cmd_registry
  /\ pc' = "report"
  /\ UNCHANGED <<callVars, tokVars, redirVars, children, termios, tty, input, input_buffer, outVars,
                 dispatch, iter, ended>>
EvalReturnsError ==
  /\ pc = "eval"
  /\ LET plan == EvalPlan(cmd_registry, input_buffer)
     IN  /\ plan.next = "return"
         /\ result' = Some(Err(plan.error))
  /\ pc' = "report"
  /\ UNCHANGED <<callVars, tokVars, redirVars, children, termios, tty, input, input_buffer, outVars,
                 cmd_registry, dispatch, iter, ended>>

\* Shell::eval finds the command and swaps the redirected streams in.
EvalDispatches ==
  /\ pc = "eval"
  /\ LET plan == EvalPlan(cmd_registry, input_buffer)
     IN  /\ plan.next = "dispatch"
         /\ LET w1 == SwapIn(Streams, "stdout", plan.stdout_redirect)
                w2 == SwapIn(w1, "stderr", plan.stderr_redirect)
            IN  /\ SetStreams(w2)
                /\ dispatch' =
                     Some([command |-> plan.command, args |-> plan.args,
                           original_stdout |->
                             Replaced(Streams, "stdout", plan.stdout_redirect),
                           original_stderr |->
                             Replaced(w1, "stderr", plan.stderr_redirect)])
  /\ pc' = "running"
  /\ UNCHANGED <<callVars, tokVars, redirVars, children, termios, tty, input, input_buffer,
                 cmd_registry, result, iter, ended>>

\* File::create fails on a redirection target: ShellOutput::file unwraps the
\* error and panics. The stdout target is opened first.
EvalOpenPanics ==
  /\ pc = "eval"
  /\ LET plan == EvalPlan(cmd_registry, input_buffer)
     IN  /\ plan.next = "dispatch"
         /\ \/ /\ plan.stdout_redirect # None
               /\ UNCHANGED outVars
            \/ /\ plan.stderr_redirect # None
               /\ SetStreams(SwapIn(Streams, "stdout", plan.stdout_redirect))
  /\ pc' = "panicked"
  /\ ended' = Panic("File::create", "eval")
  /\ UNCHANGED <<callVars, tokVars, redirVars, children, termios, tty, input, input_buffer,
                 cmd_registry, dispatch, result, iter>>

\* A builtin runs and returns; eval restores the streams and returns the
\* builtin's Result.
RunBuiltin ==
  /\ pc = "running"
  /\ LET d == dispatch[1]
     IN  /\ d.command.kind = "Builtin"
         /\ \E out \in BuiltinOutcomes(d.command.name, d.args, cmd_registry) :
              LET w1 == WriteAll(Streams, "stdout", out.writes)
                  w2 == [w1 EXCEPT !.term_out = @ \o out.prints]
              IN  /\ SetStreams(RestoreStreams(w2, d, out.result))
                  /\ result' = Some(out.result)
  /\ dispatch' = None
  /\ pc' = "report"
  /\ UNCHANGED <<callVars, tokVars, redirVars, children, termios, tty, input, input_buffer,
                 cmd_registry, iter, ended>>

\* A builtin's write fails: ShellOutput::writeln expects success and panics.
RunBuiltinWritePanics ==
  /\ pc = "running"
  /\ LET d == dispatch[1]
     IN  /\ d.command.kind = "Builtin"
         /\ \E out \in BuiltinOutcomes(d.command.name, d.args, cmd_registry) :
              out.writes # <<>>
  /\ pc' = "panicked"
  /\ ended' = Panic("should be able to write", "eval")
  /\ UNCHANGED <<callVars, tokVars, redirVars, children, termios, tty, input, input_buffer, outVars,
                 cmd_registry, dispatch, result, iter>>

\* ExitCommand::run with no argument or one that parses: the process exits.
RunExit ==
  /\ pc = "running"
  /\ LET d == dispatch[1]
     IN  /\ d.command = Builtin(NameExit)
         /\ ExitStatus(d.args) # None
         /\ ended' = Exit(ExitStatus(d.args)[1])
  /\ pc' = "exited"
  /\ UNCHANGED <<callVars, tokVars, redirVars, children, termios, tty, input, input_buffer, outVars,
                 cmd_registry, dispatch, result, iter>>

\* What the operating system says when a spawn or a wait fails, as
\* io::Error displays it.
SpawnErrors ==
  {"No such file or directory (os error 2)", "Permission denied (os error 13)"}
WaitError == "No child processes (os error 10)"

\* The statuses a child exits with.
ExitStatuses == {0, 1}

\* The rest of ExternalCommand::run once child.wait() has returned wait, the
\* exit status or an error.
ExternalResultInspectsStatus(wait) ==
  IF wait.ok
    THEN IF wait.value = 0 THEN Ok(<<>>)
         ELSE Err(CommandExecutionFail("exit status"))
    ELSE Err(CommandExecutionFail(wait.error))
ExternalResult(wait) ==
  IF wait.ok THEN Ok(<<>>) ELSE Err(CommandExecutionFail(wait.error))

\* ExternalCommand::run up to the spawn: a handle cannot be cloned or the
\* child cannot be spawned, and run returns the error, or the child starts.
SpawnExternal ==
  /\ pc = "running"
  /\ LET d == dispatch[1]
     IN  /\ d.command.kind = "External"
         /\ \/ \E text \in SpawnErrors :
                 LET res == Err(CommandExecutionFail(text))
                 IN  /\ SetStreams(RestoreStreams(Streams, d, res))
                     /\ result' = Some(res)
                     /\ dispatch' = None
                     /\ pc' = "report"
                     /\ UNCHANGED children
            \/ /\ pc' = "waiting"
               /\ children' = Append(children, [name |-> d.command.name,
                                                args |-> d.args,
                                                state |-> "running"])
               /\ UNCHANGED <<outVars, result, dispatch>>
  /\ UNCHANGED <<callVars, tokVars, redirVars, termios, tty, input, input_buffer,
                 cmd_registry, iter, ended>>

\* The lines a child writes to its standard output and standard error.
ChildOutputLine(name) == <<"<output of {}>", name>>
ChildErrorLine(name) == <<"<errors of {}>", name>>

\* The child, which holds the shell's two handles, writes a line to one of
\* them, or a line to the standard output and then one to the standard
\* error, or nothing, and exits with a status; the shell is in child.wait().
ChildExits ==
  /\ pc = "waiting"
  /\ children[Len(children)].state = "running"
  /\ \E wrote \in {"nothing", "stdout", "stderr", "both"}, status \in ExitStatuses :
       /\ SetStreams(
            CASE wrote = "nothing" -> Streams
              [] wrote = "both" ->
                   writeln(writeln(Streams, "stdout",
                                   ChildOutputLine(dispatch[1].command.name)),
                           "stderr", ChildErrorLine(dispatch[1].command.name))
              [] OTHER ->
                   writeln(Streams, wrote,
                           ChildOutputLine(dispatch[1].command.name)))
       /\ children' = [children EXCEPT ![Len(children)] =
                         [name |-> @.name, args |-> @.args,
                          state |-> "exited", status |-> status]]
  /\ UNCHANGED <<callVars, tokVars, redirVars, pc, termios, tty, input, input_buffer,
                 cmd_registry, dispatch, result, iter, ended>>

\* What child.wait() can return: nothing while the child runs, for waitpid
\* blocks and is retried when a signal interrupts it; once the child has
\* exited, its status, or an error when the status is not there to collect.
WaitOutcomesWithTimeout(child) ==
  IF child.state = "exited"
    THEN {Ok(child.status), Err(WaitError)}
    ELSE {Err("timed out")}
WaitOutcomes(child) ==
  IF child.state = "exited"
    THEN {Ok(child.status), Err(WaitError)}
    ELSE {}

\* child.wait() returns; run returns and eval restores the streams.
WaitReturns ==
  /\ pc = "waiting"
  /\ LET d == dispatch[1]
     IN  \E wait \in WaitOutcomes(children[Len(children)]) :
           LET res == ExternalResult(wait)
           IN  /\ SetStreams(RestoreStreams(Streams, d, res))
               /\ result' = Some(res)
               /\ children' = [children EXCEPT ![Len(children)].state =
                                 IF wait.ok THEN "reaped" ELSE "lost"]
  /\ dispatch' = None
  /\ pc' = "report"
  /\ UNCHANGED <<callVars, tokVars, redirVars, termios, tty, input, input_buffer,
                 cmd_registry, iter, ended>>

\* run_repl after eval: an error is handed to handle_eval_error, and the
\* input buffer is cleared.
Report ==
  /\ pc = "report"
  /\ SetStreams(IF result[1].ok THEN Streams
                ELSE handle_eval_error(Streams, result[1].error, cmd_registry))
  /\ input_buffer' = <<>>
  /\ pc' = "idle"
  /\ UNCHANGED <<callVars, tokVars, redirVars, children, termios, tty, input, cmd_registry,
                 dispatch, result, iter, ended>>

Next ==
  \/ EnterRaw
  \/ EnterRawFails
  \/ ReadByte
  \/ ReadEof
  \/ ReadFails
  \/ EvalReturnsError
  \/ EvalDispatches
  \/ EvalOpenPanics
  \/ RunBuiltin
  \/ RunBuiltinWritePanics
  \/ RunExit
  \/ SpawnExternal
  \/ ChildExits
  \/ WaitReturns
  \/ Report

Spec == Init /\ [][Next]_vars

(***************************************************************************)
(* The command lookup alone, for registries of every content               *)
(***************************************************************************)
\* Where an executable of a name lies.
PathOf(name) ==
  IF name = NameLs THEN "/bin/ls"
  ELSE IF name = NameEcho THEN "/bin/echo"
  ELSE "/usr/bin/cd"

\* A registry after register_builtin for each of builtins, register_external
\* on a PATH holding the executables externals, and populate_registered_names.
Registry(builtins, externals) ==
  LET builtin == [name \in builtins |-> Builtin(name)]
      external == [name \in externals |-> External(name, PathOf(name))]
  IN  [builtin |-> builtin, external |-> external,
       registered_names |-> populate_registered_names(builtin, external)]

Registries ==
  {Registry(builtins, externals) :
     builtins \in SUBSET {NameEcho, NameCd, NameExit},
     externals \in SUBSET {NameEcho, NameCd, NameLs}}

\* The names looked up: registered ones and others.
LookupNames == {NameEcho, NameCd, NameExit, NameLs, NameEhco, NameZz}

InitLookup ==
  /\ call \in {[op |-> "get_command", state |-> "called", reg |-> reg,
                command_name |-> name] :
                 reg \in Registries, name \in LookupNames}
  /\ scan = ScanIdle
  /\ redir = RedirIdle
  /\ ReplIdle

\* self.cmd_registry.get_command(command_name)
LookupGet ==
  /\ call.op = "get_command"
  /\ call.state = "called"
  /\ call' = [op |-> "get_command", state |-> "looked up", reg |-> call.reg,
              command_name |-> call.command_name,
              command |-> get_command(call.reg, call.command_name)]
  /\ UNCHANGED <<tokVars, redirVars, replVars>>

\* Shell::eval on the line that is the name alone: the error it returns or
\* the command it is about to run.
LookupEval ==
  /\ call.op = "get_command"
  /\ call.state = "looked up"
  /\ call' = [op |-> "get_command", state |-> "evaluated", reg |-> call.reg,
              command_name |-> call.command_name,
              command |-> call.command,
              plan |-> EvalPlan(call.reg, call.command_name)]
  /\ UNCHANGED <<tokVars, redirVars, replVars>>

NextLookup == LookupGet \/ LookupEval

SpecLookup == InitLookup /\ [][NextLookup]_vars

(***************************************************************************)
(* The construction of a CommandsRegistry (src/src/commands/registry.rs)   *)
(***************************************************************************)
MaxRegistered == 3
MaxPathDirs == 2

\* HashMap::new and HashMap::insert on a map held as a function.
EmptyMap == [k \in {} |-> k]
MapInsert(m, k, v) == [x \in DOMAIN m \cup {k} |-> IF x = k THEN v ELSE m[x]]

\* A boxed builtin command: what get_name returns and the type behind the
\* box.  Two types may return the same name.
BoxedCommand(name, type) == [kind |-> "Builtin", name |-> name, type |-> type]

\* CommandsRegistry::register_builtin: the assertion, then the insert.
register_builtin_replaces(builtin, command) ==
  Ok(MapInsert(builtin, command.name, command))
register_builtin(builtin, command) ==
  IF command.name \in DOMAIN builtin
    THEN Err(<<"duplicate builtin command: {}", command.name>>)
    ELSE Ok(MapInsert(builtin, command.name, command))

\* The directories of the modelled file system: what read_dir yields for
\* each, None for one that cannot be read.  An entry is a file name and
\* whether is_executable holds of its path.
DirEntry(name, executable) == [file_name |-> name, executable |-> executable]
DirBin == "/bin"
DirUsrBin == "/usr/bin"
DirOpt == "/opt"
DirNone == "/none"
ReadDir(dir) ==
  IF dir = DirBin
    THEN Some({DirEntry(NameLs, TRUE), DirEntry(NameEcho, TRUE),
               DirEntry(NameZz, FALSE)})
  ELSE IF dir = DirUsrBin
    THEN Some({DirEntry(NameLs, TRUE), DirEntry(NameCd, TRUE)})
  ELSE IF dir = DirOpt
    THEN Some({DirEntry(NameEcho, TRUE), DirEntry(NameCd, FALSE),
               DirEntry(NameZz, TRUE)})
  ELSE None

\* The body of the loop over the directories of PATH for one directory: the
\* executables of the directory whose names are not yet keys are inserted
\* with their paths in this directory.
RegisterDirOverwrites(external, dir) ==
  IF ReadDir(dir) = None THEN external
  ELSE LET found == {e.file_name : e \in {x \in ReadDir(dir)[1] : x.executable}}
       IN  [name \in DOMAIN external \cup found |->
              IF name \in found
                THEN External(name, <<dir, name>>)
                ELSE external[name]]
RegisterDir(external, dir) ==
  IF ReadDir(dir) = None THEN external
  ELSE LET found == {e.file_name : e \in {x \in ReadDir(dir)[1] : x.executable}}
       IN  [name \in DOMAIN external \cup found |->
              IF name \in DOMAIN external
                THEN external[name]
                ELSE External(name, <<dir, name>>)]

\* The commands handed to register_builtin and the values of PATH.
BoxedCommands ==
  {BoxedCommand(NameEcho, "EchoCommand"), BoxedCommand(NameEcho, "BagagaCommand"),
   BoxedCommand(NameCd, "CdCommand")}
PathValues ==
  {None} \cup {Some(dirs) :
                 dirs \in SeqsUpTo({DirBin, DirUsrBin, DirOpt, DirNone}, MaxPathDirs)}

\* A construction: register_builtin for each of commands, register_external
\* under the value path of PATH, populate_registered_names.  `returned` holds
\* the commands whose register_builtin call has returned.
BuildCall(commands, path) ==
  [op |-> "CommandsRegistry::default", state |-> "builtins",
   commands |-> commands, path |-> path, dirs |-> <<>>, returned |-> <<>>,
   builtin |-> EmptyMap, external |-> EmptyMap, registered_names |-> <<>>]

InitBuild ==
  /\ call \in {BuildCall(commands, path) :
                 commands \in SeqsUpTo(BoxedCommands, MaxRegistered),
                 path \in PathValues}
  /\ scan = ScanIdle
  /\ redir = RedirIdle
  /\ ReplIdle

\* A register_builtin call that returns.
RegisterBuiltin ==
  /\ call.op = "CommandsRegistry::default"
  /\ call.state = "builtins"
  /\ call.commands # <<>>
  /\ LET r == register_builtin(call.builtin, Head(call.commands))
     IN  /\ r.ok
         /\ call' = [call EXCEPT !.builtin = r.value,
                                 !.returned = Append(@, Head(call.commands)),
                                 !.commands = Tail(@)]
  /\ UNCHANGED <<tokVars, redirVars, replVars>>

\* A register_builtin call whose assertion fails.
RegisterBuiltinPanics ==
  /\ call.op = "CommandsRegistry::default"
  /\ call.state = "builtins"
  /\ call.commands # <<>>
  /\ ~register_builtin(call.builtin, Head(call.commands)).ok
  /\ call' = [call EXCEPT !.state = "panicked"]
  /\ UNCHANGED <<tokVars, redirVars, replVars>>

\* register_external when PATH is set: its value is split.
RegisterExternalSplits ==
  /\ call.op = "CommandsRegistry::default"
  /\ call.state = "builtins"
  /\ call.commands = <<>>
  /\ call.path # None
  /\ call' = [call EXCEPT !.state = "externals", !.dirs = call.path[1]]
  /\ UNCHANGED <<tokVars, redirVars, replVars>>

\* register_external when PATH is not set: nothing is registered.
RegisterExternalNoPath ==
  /\ call.op = "CommandsRegistry::default"
  /\ call.state = "builtins"
  /\ call.commands = <<>>
  /\ call.path = None
  /\ call' = [call EXCEPT !.state = "externals"]
  /\ UNCHANGED <<tokVars, redirVars, replVars>>

\* One directory of PATH.
RegisterExternalDir ==
  /\ call.op = "CommandsRegistry::default"
  /\ call.state = "externals"
  /\ call.dirs # <<>>
  /\ call' = [call EXCEPT !.external = RegisterDir(@, Head(call.dirs)),
                          !.dirs = Tail(@)]
  /\ UNCHANGED <<tokVars, redirVars, replVars>>

\* registry.populate_registered_names(), and the registry is returned.
PopulateRegisteredNames ==
  /\ call.op = "CommandsRegistry::default"
  /\ call.state = "externals"
  /\ call.dirs = <<>>
  /\ call' = [call EXCEPT
                !.state = "built",
                !.registered_names =
                  populate_registered_names(call.builtin, call.external)]
  /\ UNCHANGED <<tokVars, redirVars, replVars>>

NextBuild ==
  \/ RegisterBuiltin
  \/ RegisterBuiltinPanics
  \/ RegisterExternalSplits
  \/ RegisterExternalNoPath
  \/ RegisterExternalDir
  \/ PopulateRegisteredNames

SpecBuild == InitBuild /\ [][NextBuild]_vars

(***************************************************************************)
(* Levenshtein::distance and the closest-candidate searches alone          *)
(***************************************************************************)
MaxStrLen == 3

\* The strings the distance is computed between: every string of two
\* letters up to the bound, and the pairs of the crate's tests.
LevAlphabet == {Code["a"], Code["b"]}
LevStrings == SeqsUpTo(LevAlphabet, MaxStrLen)
Kitten == Str(<<"k", "i", "t", "t", "e", "n">>)
Sitting == Str(<<"s", "i", "t", "t", "i", "n", "g">>)
Flaw == Str(<<"f", "l", "a", "w">>)
Lawn == Str(<<"l", "a", "w", "n">>)
RustCapital == Str(<<"R", "u", "s", "t">>)
RustSmall == Str(<<"r", "u", "s", "t">>)
DistancePairs ==
  (LevStrings \X LevStrings)
    \cup {<<Kitten, Sitting>>, <<Sitting, Kitten>>, <<Flaw, Lawn>>,
          <<RustCapital, RustSmall>>, <<RustSmall, RustSmall>>}

\* A call of distance(s, t) before its first statement.
DistanceCall(s, t) ==
  [op |-> "distance", state |-> "called", s |-> s, t |-> t,
   j |-> 0, dp |-> <<>>, value |-> None]

\* `if s_len == 0 { return t_len; } if t_len == 0 { return s_len; }`
DistanceEarly ==
  /\ call.op = "distance"
  /\ call.state = "called"
  /\ Len(call.s) = 0 \/ Len(call.t) = 0
  /\ call' = [call EXCEPT !.state = "returned",
                          !.value = Some(IF Len(call.s) = 0
                                           THEN Len(call.t) ELSE Len(call.s))]
  /\ UNCHANGED <<tokVars, redirVars, replVars>>

\* `let mut dp: Vec<usize> = (0..=s_len).collect();`
DistanceStart ==
  /\ call.op = "distance"
  /\ call.state = "called"
  /\ Len(call.s) # 0 /\ Len(call.t) # 0
  /\ call' = [call EXCEPT !.state = "rows", !.j = 1,
                          !.dp = [k \in 1..(Len(call.s) + 1) |-> k - 1]]
  /\ UNCHANGED <<tokVars, redirVars, replVars>>

\* One iteration of `for j in 1..=t_len`: the single row is rewritten.
DistanceOuter ==
  /\ call.op = "distance"
  /\ call.state = "rows"
  /\ call.j <= Len(call.t)
  /\ call' = [call EXCEPT
                !.dp = DistanceRow(call.s, call.t, call.j, 1,
                                   [call.dp EXCEPT ![1] = call.j], call.dp[1]),
                !.j = @ + 1]
  /\ UNCHANGED <<tokVars, redirVars, replVars>>

\* `dp[s_len]`
DistanceReturn ==
  /\ call.op = "distance"
  /\ call.state = "rows"
  /\ call.j > Len(call.t)
  /\ call' = [call EXCEPT !.state = "returned",
                          !.value = Some(call.dp[Len(call.s) + 1])]
  /\ UNCHANGED <<tokVars, redirVars, replVars>>

MaxCandidates == 2

\* The targets and candidates of the searches: names at the distances 0, 1
\* and 2 from one another; the candidate lists; and the thresholds, from an
\* exact match to the largest of these distances.
ClosestNames ==
  {<<>>, Str(<<"a">>), Str(<<"b">>), Str(<<"a", "a">>), Str(<<"a", "b">>),
   Str(<<"b", "a">>)}
CandidateLists == SeqsUpTo(ClosestNames, MaxCandidates)
Thresholds == {0, 1, 2}

\* A call of get_closest_with_threshold(s, vars, threshold), or of
\* get_closest(s, vars) when threshold is None.
ClosestCall(op, s, candidates, threshold) ==
  [op |-> op, state |-> "called", s |-> s, vars |-> candidates,
   threshold |-> threshold, value |-> None]

ClosestWithThreshold ==
  /\ call.op = "get_closest_with_threshold"
  /\ call.state = "called"
  /\ call' = [call EXCEPT
                !.state = "returned",
                !.value = get_closest_with_threshold(call.s, call.vars,
                                                     call.threshold[1])]
  /\ UNCHANGED <<tokVars, redirVars, replVars>>

Closest ==
  /\ call.op = "get_closest"
  /\ call.state = "called"
  /\ call' = [call EXCEPT !.state = "returned",
                          !.value = get_closest(call.s, call.vars)]
  /\ UNCHANGED <<tokVars, redirVars, replVars>>

\* The streams of a shell that has written nothing yet.
FreshStreams ==
  [stdout |-> StdoutHandle, stderr |-> StderrHandle,
   term_out |-> <<>>, term_err |-> <<>>, fs |-> <<>>]

\* Names no registry holds: of 2, 3 and 4 characters, at the distances 1, 2
\* and more from the names the registries hold.
NameDc == Str(<<"d", "c">>)
NameCdd == Str(<<"c", "d", "d">>)
NameZzzz == Str(<<"z", "z", "z", "z">>)
SuggestNames == {NameEhco, NameZz, NameDc, NameCdd, NameZzzz}

\* A call of handle_eval_error(CommandNotFound { command_name }) on a shell
\* with the registry reg.
SuggestCall(command_name, reg) ==
  [op |-> "handle_eval_error", state |-> "called",
   error |-> CommandNotFound(command_name), reg |-> reg,
   streams |-> FreshStreams]

Suggest ==
  /\ call.op = "handle_eval_error"
  /\ call.state = "called"
  /\ call' = [call EXCEPT
                !.state = "returned",
                !.streams = handle_eval_error(call.streams, call.error, call.reg)]
  /\ UNCHANGED <<tokVars, redirVars, replVars>>

InitLev ==
  /\ call \in {DistanceCall(p[1], p[2]) : p \in DistancePairs}
              \cup {DistanceCall(NameEhco, NameEcho)}
              \cup {SuggestCall(name, reg) :
                      name \in SuggestNames, reg \in Registries}
              \cup {ClosestCall("get_closest_with_threshold", s, cs, Some(th)) :
                      s \in ClosestNames, cs \in CandidateLists,
                      th \in Thresholds}
              \cup {ClosestCall("get_closest", s, cs, None) :
                      s \in ClosestNames, cs \in CandidateLists}
  /\ scan = ScanIdle
  /\ redir = RedirIdle
  /\ ReplIdle

NextLev ==
  \/ DistanceEarly
  \/ DistanceStart
  \/ DistanceOuter
  \/ DistanceReturn
  \/ ClosestWithThreshold
  \/ Closest
  \/ Suggest

SpecLev == InitLev /\ [][NextLev]_vars

(***************************************************************************)
(* Shell::handle_input alone, for every sequence of keys                   *)
(***************************************************************************)
MaxKeys == 3

\* The bytes of a key: two letters, the two erase keys, the arrows left,
\* right and up as the terminal sends them, EOT and the newline.
KeyLeft == <<ESC, Code["["], Code["D"]>>
KeyRight == <<ESC, Code["["], Code["C"]>>
KeyUp == <<ESC, Code["["], Code["A"]>>
EditKeys ==
  {<<Code["c"]>>, <<Code["d"]>>, <<DEL>>, <<BS>>, KeyLeft, KeyRight, KeyUp,
   <<EOT>>, <<LF>>}

\* The bytes of a sequence of keys.
RECURSIVE KeyBytes(_)
KeyBytes(ks) == IF ks = <<>> THEN <<>> ELSE ks[1] \o KeyBytes(Tail(ks))

\* A line edited with an erase key and a left arrow before an insertion:
\* "bx", erase, left, "a", newline.
EditCycle ==
  Str(<<"b", "x">>) \o <<BS>> \o KeyLeft \o Str(<<"a">>) \o <<LF>>

\* What the terminal delivers during one call: a sequence of keys, possibly
\* cut inside an escape sequence where the input ends.
\* The ESC key pressed alone after "x", and then a newline and an erase key,
\* or an EOT and a letter, before "y" and the newline.
EscThenNewline == Str(<<"x">>) \o <<ESC, LF, DEL>> \o Str(<<"y">>) \o <<LF>>
EscThenEot == Str(<<"x">>) \o <<ESC, EOT, Code["c"]>> \o Str(<<"y">>) \o <<LF>>

EditScripts ==
  {KeyBytes(ks) \o cut :
     ks \in SeqsUpTo(EditKeys, MaxKeys), cut \in {<<>>, <<ESC>>, <<ESC, Code["["]>>}}
    \cup {EditCycle, EscThenNewline, EscThenEot}

\* handle_input has entered its loop on a shell that has just started.
InitEdit ==
  /\ scan = ScanIdle
  /\ redir = RedirIdle
  /\ call = CallIdle
  /\ pc = "reading"
  /\ \E mode \in TermModes :
       /\ termios = disable_canonical_echo(mode)
       /\ input = Some([original_termios |-> mode, buffer |-> <<>>,
                        cursor_pos |-> 0])
  /\ tty \in EditScripts
  /\ input_buffer = <<>>
  /\ stdout = StdoutHandle
  /\ stderr = StderrHandle
  /\ term_out = <<>>
  /\ term_err = <<>>
  /\ fs = <<>>
  /\ cmd_registry = DefaultRegistry
  /\ dispatch = None
  /\ result = None
  /\ iter = 0
  /\ ended = None
  /\ children = <<>>

NextEdit == ReadByte \/ ReadEof \/ ReadFails

SpecEdit == InitEdit /\ [][NextEdit]_vars

(***************************************************************************)
(* InputHandler::input_loop (src/src/app/input_handler.rs)                 *)
(***************************************************************************)
MaxInputKeys == 3

\* `b as char` pushed into a String: the UTF-8 encoding of the character
\* whose code point is the byte.
EncodeUtf8(b) == IF b < 128 THEN <<b>> ELSE <<192 + (b \div 64), 128 + (b % 64)>>

\* str::is_char_boundary on the bytes of a String.
is_char_boundary(bytes, idx) ==
  \/ idx = 0
  \/ idx = Len(bytes)
  \/ idx < Len(bytes) /\ bytes[idx + 1] \notin 128..191

\* The number of bytes of the character that starts at a boundary idx.
CharLenAt(bytes, idx) == IF bytes[idx + 1] < 128 THEN 1 ELSE 2

\* String::insert and String::remove: both panic unless idx lies on a
\* character boundary, remove also when idx is the length.
StringInsertChar(bytes, idx, b) ==
  IF idx <= Len(bytes) /\ is_char_boundary(bytes, idx)
    THEN Ok(SubSeq(bytes, 1, idx) \o EncodeUtf8(b)
              \o SubSeq(bytes, idx + 1, Len(bytes)))
    ELSE Err("String::insert")
StringRemoveChar(bytes, idx) ==
  IF idx < Len(bytes) /\ is_char_boundary(bytes, idx)
    THEN Ok(SubSeq(bytes, 1, idx)
              \o SubSeq(bytes, idx + CharLenAt(bytes, idx) + 1, Len(bytes)))
    ELSE Err("String::remove")

\* "command from history todo!!!"
HistoryTodo ==
  <<99, 111, 109, 109, 97, 110, 100, 32, 102, 114, 111, 109, 32, 104, 105,
    115, 116, 111, 114, 121, 32, 116, 111, 100, 111, 33, 33, 33>>

\* The match of one iteration of input_loop on a byte b that does not end
\* the loop; seq is what the second read delivered after an ESC.  The value
\* is the buffer and the cursor, or the call that panicked.
InputLoopEdit(ed, b, seq) ==
  CASE b = ESC ->
         IF Len(seq) < 2 THEN Ok(ed)
         ELSE IF seq[1] # Code["["] THEN Ok(ed)
         ELSE IF seq[2] = Code["D"]
           THEN Ok(IF ed.cursor_pos > 0
                     THEN [ed EXCEPT !.cursor_pos = @ - 1] ELSE ed)
         ELSE IF seq[2] = Code["C"]
           THEN Ok(IF ed.cursor_pos < Len(ed.buffer)
                     THEN [ed EXCEPT !.cursor_pos = @ + 1] ELSE ed)
         ELSE IF seq[2] = Code["A"]
           THEN Ok([buffer |-> HistoryTodo, cursor_pos |-> Len(HistoryTodo)])
         ELSE Ok(ed)
    [] b \in {DEL, BS} ->
         IF ed.cursor_pos > 0
           THEN LET removed == StringRemoveChar(ed.buffer, ed.cursor_pos - 1)
                IN  IF removed.ok
                      THEN Ok([buffer |-> removed.value,
                               cursor_pos |-> ed.cursor_pos - 1])
                      ELSE removed
           ELSE Ok(ed)
    [] b \notin {ESC, DEL, BS} /\ ~is_ascii_control(b) ->
         LET inserted == StringInsertChar(ed.buffer, ed.cursor_pos, b)
         IN  IF inserted.ok
               THEN Ok([buffer |-> inserted.value,
                        cursor_pos |-> ed.cursor_pos + 1])
               ELSE inserted
    [] OTHER -> Ok(ed)

\* The keys typed into input_loop, as the bytes the terminal delivers: a
\* letter, the two bytes of a letter with an accent in UTF-8, backspace, the
\* arrows left, right and up, a control byte that is ignored, newline.
InputKeys ==
  {<<97>>, <<195>>, <<169>>, <<DEL>>, <<ESC, 91, 68>>, <<ESC, 91, 67>>,
   <<ESC, 91, 65>>, <<TAB>>, <<LF>>}

\* A call of input_loop at the head of its loop: the terminal is in raw
\* mode, the buffer run_repl hands in is empty, the cursor is at 0.
InputLoopCall(tty_bytes) ==
  [op |-> "InputHandler::input_loop", state |-> "loop", raw |-> TRUE,
   tty |-> tty_bytes, ed |-> [buffer |-> <<>>, cursor_pos |-> 0]]

InitInputLoop ==
  /\ call \in {InputLoopCall(KeyBytes(keys)) :
                 keys \in SeqsUpTo(InputKeys, MaxInputKeys)}
  /\ scan = ScanIdle
  /\ redir = RedirIdle
  /\ ReplIdle

\* What the reads of one iteration take from the terminal: the byte, and
\* after an ESC up to two more.
InputLoopTakes(tty_bytes) ==
  IF Head(tty_bytes) # ESC THEN {0}
  ELSE IF Len(tty_bytes) = 1 THEN {0}
  ELSE 1..Min(2, Len(tty_bytes) - 1)

\* An iteration on a byte that does not end the loop and does not panic.
InputLoopByte ==
  /\ call.op = "InputHandler::input_loop"
  /\ call.state = "loop"
  /\ call.tty # <<>>
  /\ Head(call.tty) \notin {LF, CR, EOT}
  /\ \E n \in InputLoopTakes(call.tty) :
       LET edited == InputLoopEdit(call.ed, Head(call.tty),
                                   SubSeq(call.tty, 2, 1 + n))
       IN  /\ edited.ok
           /\ call' = [call EXCEPT !.tty = SubSeq(@, 2 + n, Len(@)),
                                   !.ed = edited.value]
  /\ UNCHANGED <<tokVars, redirVars, replVars>>

\* An iteration in which String::insert or String::remove panics: the
\* terminal stays in raw mode.
InputLoopPanics ==
  /\ call.op = "InputHandler::input_loop"
  /\ call.state = "loop"
  /\ call.tty # <<>>
  /\ Head(call.tty) \notin {LF, CR, EOT}
  /\ \E n \in InputLoopTakes(call.tty) :
       LET edited == InputLoopEdit(call.ed, Head(call.tty),
                                   SubSeq(call.tty, 2, 1 + n))
       IN  /\ ~edited.ok
           /\ call' = [call EXCEPT !.state = "panicked",
                                   !.tty = SubSeq(@, 2 + n, Len(@))]
  /\ UNCHANGED <<tokVars, redirVars, replVars>>

\* The loop ends on a newline, a carriage return, EOT or the end of the
\* input; the terminal is restored and the cursor set to 0.
InputLoopEnds ==
  /\ call.op = "InputHandler::input_loop"
  /\ call.state = "loop"
  /\ (call.tty # <<>> => Head(call.tty) \in {LF, CR, EOT})
  /\ call' = [call EXCEPT
                !.state = "returned",
                !.raw = FALSE,
                !.tty = IF @ = <<>> THEN @ ELSE Tail(@),
                !.ed = [buffer |-> call.ed.buffer, cursor_pos |-> 0]]
  /\ UNCHANGED <<tokVars, redirVars, replVars>>

\* A read of the terminal fails: unwrap panics.
InputLoopReadFails ==
  /\ call.op = "InputHandler::input_loop"
  /\ call.state = "loop"
  /\ call' = [call EXCEPT !.state = "read failed"]
  /\ UNCHANGED <<tokVars, redirVars, replVars>>

NextInputLoop ==
  InputLoopByte \/ InputLoopPanics \/ InputLoopEnds \/ InputLoopReadFails

SpecInputLoop == InitInputLoop /\ [][NextInputLoop]_vars

(***************************************************************************)
(* Shell::read_multiline_input (src/src/app.rs)                            *)
(***************************************************************************)
MaxStdinLen == 5

\* str::ends_with and str::trim_end_matches for a pattern of one character,
\* and ends_with for a pattern that is a string.
EndsWithChar(str, ch) == str # <<>> /\ str[Len(str)] = ch
EndsWith(str, suffix) ==
  /\ Len(str) >= Len(suffix)
  /\ SubSeq(str, Len(str) - Len(suffix) + 1, Len(str)) = suffix
RECURSIVE TrimEndMatches(_, _)
TrimEndMatches(str, ch) ==
  IF EndsWithChar(str, ch)
    THEN TrimEndMatches(SubSeq(str, 1, Len(str) - 1), ch)
    ELSE str

\* BufRead::read_line on what is left of the standard input: the characters
\* up to and with the first newline, or all of them when there is none.
RECURSIVE ReadLineLen(_)
ReadLineLen(stdin) ==
  IF stdin = <<>> THEN 0
  ELSE IF stdin[1] = LF THEN 1
  ELSE 1 + ReadLineLen(Tail(stdin))

\* `line.ends_with('\\') && !line.ends_with("\\\\")`
ContinuesOnAnyBackslash(line) == EndsWithChar(line, BSLASH)
Continues(line) ==
  EndsWithChar(line, BSLASH) /\ ~EndsWith(line, <<BSLASH, BSLASH>>)

\* What the standard input holds: letters, backslashes and newlines.
StdinAlphabet == {Code["a"], BSLASH, LF}

\* A call of read_multiline_input at the head of its loop.
MultilineCall(stdin) ==
  [op |-> "read_multiline_input", state |-> "loop", stdin |-> stdin,
   complete_input |-> <<>>]

InitMultiline ==
  /\ call \in {MultilineCall(stdin) :
                 stdin \in SeqsUpTo(StdinAlphabet, MaxStdinLen)}
  /\ scan = ScanIdle
  /\ redir = RedirIdle
  /\ ReplIdle

\* An iteration of the loop that reads a line ending in one backslash: the
\* line without it and a space are pushed, and the loop goes on.
MultilineContinue ==
  /\ call.op = "read_multiline_input"
  /\ call.state = "loop"
  /\ LET n == ReadLineLen(call.stdin)
         line == TrimEndMatches(SubSeq(call.stdin, 1, n), LF)
     IN  /\ Continues(line)
         /\ call' = [call EXCEPT
                       !.stdin = SubSeq(@, n + 1, Len(@)),
                       !.complete_input =
                         (@ \o TrimEndMatches(line, BSLASH)) \o <<SPACE>>]
  /\ UNCHANGED <<tokVars, redirVars, replVars>>

\* An iteration that reads any other line, or nothing at the end of the
\* input: the line is pushed and the loop ends.
MultilineBreak ==
  /\ call.op = "read_multiline_input"
  /\ call.state = "loop"
  /\ LET n == ReadLineLen(call.stdin)
         line == TrimEndMatches(SubSeq(call.stdin, 1, n), LF)
     IN  /\ ~Continues(line)
         /\ call' = [call EXCEPT !.state = "returned",
                                 !.stdin = SubSeq(@, n + 1, Len(@)),
                                 !.complete_input = @ \o line]
  /\ UNCHANGED <<tokVars, redirVars, replVars>>

\* read_line fails: unwrap panics.
MultilineReadFails ==
  /\ call.op = "read_multiline_input"
  /\ call.state = "loop"
  /\ call' = [call EXCEPT !.state = "panicked"]
  /\ UNCHANGED <<tokVars, redirVars, replVars>>

NextMultiline == MultilineContinue \/ MultilineBreak \/ MultilineReadFails

SpecMultiline == InitMultiline /\ [][NextMultiline]_vars

(***************************************************************************)
(* Shell::eval from the line to the resolved redirections, on two lines    *)
(***************************************************************************)
\* The first steps of Shell::eval on a line: parse_shell_input, then
\* process_redirections on its tokens (an empty token list returns before).
EvalResolveUnlessQuoted(line) ==
  LET tokens == parse_shell_input(line)
  IN  IF tokens = <<>> THEN Err(EmptyInput)
      ELSE IF \E k \in DOMAIN line : line[k] \in {SQ, DQ, BSLASH}
        THEN Ok([command_tokens |-> tokens, stdout_redirect |-> None,
                 stderr_redirect |-> None])
      ELSE process_redirections(tokens)
EvalResolve(line) ==
  LET tokens == parse_shell_input(line)
  IN  IF tokens = <<>> THEN Err(EmptyInput) ELSE process_redirections(tokens)

\* The ways to write a token value on a line: bare, in double quotes, in
\* single quotes, with a backslash before its first character.
Spellings(value) ==
  {value, <<DQ>> \o value \o <<DQ>>, <<SQ>> \o value \o <<SQ>>,
   <<BSLASH>> \o value}

\* Lines of two and three tokens, operators among them, in every spelling,
\* and the same lines written bare.
SpelledValues == <<{TokA, OpGt}, {OpGt, Op2Gt, OpAmpGt, TokF}, {TokF, OpGt}>>
BareLines ==
  {Join(<<v1, v2>>) : v1 \in SpelledValues[1], v2 \in SpelledValues[2]}
  \cup {Join(<<v1, v2, v3>>) : v1 \in SpelledValues[1],
                               v2 \in SpelledValues[2],
                               v3 \in SpelledValues[3]}
SpelledLines ==
  UNION {{Join(<<s1, s2>>) : s1 \in Spellings(v1), s2 \in Spellings(v2)} :
           v1 \in SpelledValues[1], v2 \in SpelledValues[2]}
  \cup UNION {{Join(<<s1, s2, s3>>) :
                 s1 \in {v1}, s2 \in Spellings(v2), s3 \in Spellings(v3)} :
                v1 \in SpelledValues[1], v2 \in SpelledValues[2],
                v3 \in SpelledValues[3]}

\* Two lines to evaluate, one after the other.
InitSpelled ==
  /\ call \in {[op |-> "Shell::eval", lines |-> <<bare, spelled>>,
                tokens |-> <<>>, resolved |-> <<>>] :
                 bare \in BareLines, spelled \in SpelledLines}
  /\ scan = ScanIdle
  /\ redir = RedirIdle
  /\ ReplIdle

\* self.parse_shell_input() on the next line.
SpelledParse ==
  /\ call.op = "Shell::eval"
  /\ Len(call.tokens) < Len(call.lines)
  /\ call' = [call EXCEPT
                !.tokens = Append(@, parse_shell_input(
                                       call.lines[Len(call.tokens) + 1]))]
  /\ UNCHANGED <<tokVars, redirVars, replVars>>

\* self.process_redirections(tokens) on the tokens of the next line.
SpelledResolve ==
  /\ call.op = "Shell::eval"
  /\ Len(call.tokens) = Len(call.lines)
  /\ Len(call.resolved) < Len(call.lines)
  /\ call' = [call EXCEPT
                !.resolved = Append(@, EvalResolve(
                                         call.lines[Len(call.resolved) + 1]))]
  /\ UNCHANGED <<tokVars, redirVars, replVars>>

NextSpelled == SpelledParse \/ SpelledResolve

SpecSpelled == InitSpelled /\ [][NextSpelled]_vars

(***************************************************************************)
(* Properties of the REPL                                                  *)
(***************************************************************************)
RestoreFailed ==
  Panic("failed to restore terminal settings", "handle_input")

\* C1: whenever a call of handle_input ends -- by a newline or a carriage
\* return, EOT, a 0-byte read, or a failing terminal read; the failure of the
\* restoring set_termios itself aside -- the terminal mode is the one saved
\* immediately before the call, so the terminal is never left in raw mode.
C1_TerminalModeRestored ==
  [][(pc = "reading" /\ pc' # "reading" /\ ended' # RestoreFailed)
       => termios' = input[1].original_termios]_vars

\* No token of the line is a redirection operator.
NoRedirection(line) ==
  \A k \in DOMAIN parse_shell_input(line) :
    parse_shell_input(line)[k] \notin {OpGt, Op1Gt, Op2Gt, OpAmpGt}

\* C2: whenever no dispatch is in progress -- before an eval, and after it
\* whether the command succeeded or failed -- the shell's stdout and stderr
\* are the handles the shell started with; and nothing done for a line
\* without a redirection changes any file, so a later command never writes
\* into an earlier command's redirection file.
C2_StreamsRestored ==
  /\ [](pc \in {"idle", "reading", "eval", "report"}
          => stdout = StdoutHandle /\ stderr = StderrHandle)
  /\ [][(pc \in {"eval", "running", "waiting", "report"}
           /\ NoRedirection(input_buffer)) => fs' = fs]_vars

\* A command with a redirection of stderr has failed: its error went to the
\* terminal after the streams were restored and the file stayed empty; the
\* next command, without redirection, has written to the terminal.
C2_Witness ==
  /\ pc = "report"
  /\ iter = 2
  /\ input_buffer = Typed(<<NameEcho, TokA>>)
  /\ TokF \in DOMAIN fs
  /\ fs[TokF] = <<>>
  /\ term_err = <<ErrorLine(CommandExecutionFail("<os error>"))>>
  /\ term_out = <<<<"{}", TokA>>>>
  /\ stdout = StdoutHandle
  /\ stderr = StderrHandle

\* C3: a failure to open a redirection target file, like the other failures
\* of evaluating a line, does not end the process.
C3_OpenFailureIsNotFatal ==
  ended # Panic("File::create", "eval")

\* The lines handle_eval_error is to write for an error.
Suggestion(command_name) ==
  LET closest == get_closest_with_threshold(
                   command_name, cmd_registry.registered_names,
                   IF Len(command_name) < 4 THEN 1 ELSE 2)
  IN  IF closest = None THEN <<>>
      ELSE <<<<"did you mean \"{}\"?", closest[1]>>>>

Whitespace == {SPACE, TAB}

\* The character the next iteration of the scan matches on.
NextChar == scan.line[scan.pos + 1]

\* An iteration of the scan has run between the two states.
Scanned == ~scan.done /\ scan'.pos > scan.pos

SameQuoteState ==
  /\ scan'.in_single_quote = scan.in_single_quote
  /\ scan'.in_double_quote = scan.in_double_quote

\* C5: quote handling. In every state of the scan in_single_quote and
\* in_double_quote are not both true; a single quote outside double quotes
\* toggles in_single_quote and is not copied; a double quote outside single
\* quotes toggles in_double_quote and is not copied; a quote met inside the
\* other kind of quote is appended to the current token and toggles nothing;
\* no other character changes either flag.
C5_QuoteHandling ==
  /\ [](~(scan.in_single_quote /\ scan.in_double_quote))
  /\ [][Scanned =>
          /\ (NextChar = SQ /\ ~scan.in_double_quote) =>
               /\ scan'.in_single_quote = ~scan.in_single_quote
               /\ scan'.in_double_quote = scan.in_double_quote
               /\ scan'.current = scan.current
               /\ scan'.tokens = scan.tokens
          /\ (NextChar = DQ /\ ~scan.in_single_quote) =>
               /\ scan'.in_double_quote = ~scan.in_double_quote
               /\ scan'.in_single_quote = scan.in_single_quote
               /\ scan'.current = scan.current
               /\ scan'.tokens = scan.tokens
          /\ (NextChar = SQ /\ scan.in_double_quote) =>
               /\ SameQuoteState
               /\ scan'.current = Append(scan.current, SQ)
               /\ scan'.tokens = scan.tokens
          /\ (NextChar = DQ /\ scan.in_single_quote) =>
               /\ SameQuoteState
               /\ scan'.current = Append(scan.current, DQ)
               /\ scan'.tokens = scan.tokens
          /\ (NextChar \notin {SQ, DQ}) => SameQuoteState
       ]_vars

\* C5 witness: inside double quotes a single quote has just been matched and
\* copied into the token, and the scan is still inside double quotes only.
C5_Witness ==
  /\ scan.c = Some(SQ)
  /\ scan.in_double_quote /\ ~scan.in_single_quote
  /\ scan.current = <<SQ>>

TokensFooBarBaz == <<Str(<<"f", "o", "o", " ", "b", "a", "r">>), Str(<<"b", "a", "z">>)>>

\* C6: escape handling. Whatever the quote state, an iteration that matches a
\* backslash drops it and, when a character follows, appends that character
\* to the current token and passes over it, so that it is never matched as a
\* quote, a separator or an escape: no flag changes and no token is pushed. A
\* backslash that is the last character changes nothing but the position. The
\* line foo\ bar baz yields the tokens "foo bar" and "baz".
C6_EscapeHandling ==
  /\ [][(Scanned /\ NextChar = BSLASH) =>
          /\ SameQuoteState
          /\ scan'.tokens = scan.tokens
          /\ IF scan.pos + 2 <= Len(scan.line)
               THEN /\ scan'.current = Append(scan.current, scan.line[scan.pos + 2])
                    /\ scan'.pos = scan.pos + 2
               ELSE /\ scan'.current = scan.current
                    /\ scan'.pos = scan.pos + 1
       ]_vars
  /\ []((scan.done /\ scan.line = LineEscapedSpace) => scan.tokens = TokensFooBarBaz)

\* C6 witness: the line '\' has been tokenized: inside single quotes the
\* backslash was dropped and the quote after it copied without closing the
\* quote.
C6_Witness ==
  /\ scan.done
  /\ scan.line = <<SQ, BSLASH, SQ>>
  /\ scan.in_single_quote
  /\ scan.tokens = << <<SQ>> >>

\* The words of a line that has neither quotes nor backslashes: its maximal
\* runs of characters other than space and tab, in the order of the line.
WordStarts(line) ==
  {i \in 1..Len(line) :
     line[i] \notin Whitespace /\ (i = 1 \/ line[i - 1] \in Whitespace)}
WordEnd(line, i) ==
  CHOOSE j \in i..Len(line) :
    /\ \A k \in i..j : line[k] \notin Whitespace
    /\ (j = Len(line) \/ line[j + 1] \in Whitespace)
Words(line) ==
  LET starts == WordStarts(line)
      order  == CHOOSE f \in [1..Cardinality(starts) -> starts] :
                  \A a, b \in 1..Cardinality(starts) : a < b => f[a] < f[b]
  IN  [k \in 1..Cardinality(starts) |->
         SubSeq(line, order[k], WordEnd(line, order[k]))]

Plain(line) == \A i \in 1..Len(line) : line[i] \notin {SQ, DQ, BSLASH}

TokensEchoQuoted ==
  <<Str(<<"e", "c", "h", "o">>), Str(<<"a", " ", "b">>), Str(<<"c">>)>>

\* C7: separator handling. Outside quotes a space or tab ends the current
\* token (pushed when not empty) and the whole run of spaces and tabs after it
\* is consumed by the same iteration; inside quotes a space or tab is appended
\* to the current token; at the end of the line a non-empty current token is
\* pushed; a line of spaces and tabs only yields no token; the tokens of a line
\* without quotes and backslashes are its words in the order of the line; the
\* line echo "a b" c yields the tokens echo, a b and c.
C7_SeparatorHandling ==
  /\ [][(Scanned /\ NextChar \in Whitespace) =>
          IF ~scan.in_single_quote /\ ~scan.in_double_quote
            THEN /\ scan'.tokens = IF scan.current # <<>>
                                     THEN Append(scan.tokens, scan.current)
                                     ELSE scan.tokens
                 /\ scan'.current = <<>>
                 /\ \A k \in (scan.pos + 1)..scan'.pos : scan.line[k] \in Whitespace
                 /\ scan'.pos < Len(scan.line) => scan.line[scan'.pos + 1] \notin Whitespace
                 /\ SameQuoteState
            ELSE /\ scan'.current = Append(scan.current, NextChar)
                 /\ scan'.tokens = scan.tokens
                 /\ scan'.pos = scan.pos + 1
       ]_vars
  /\ [][(~scan.done /\ scan'.done) =>
          scan'.tokens = IF scan.current # <<>>
                           THEN Append(scan.tokens, scan.current)
                           ELSE scan.tokens
       ]_vars
  /\ [](scan.done =>
          /\ (\A i \in 1..Len(scan.line) : scan.line[i] \in Whitespace)
               => scan.tokens = <<>>
          /\ Plain(scan.line) => scan.tokens = Words(scan.line)
          /\ scan.line = LineEchoQuoted => scan.tokens = TokensEchoQuoted)

\* C7 witness: the line echo "a b" c has been tokenized.
C7_Witness ==
  /\ scan.done
  /\ scan.line = LineEchoQuoted
  /\ scan.tokens = TokensEchoQuoted

(***************************************************************************)
(* Properties of the redirection resolver (checked under SpecRedir)        *)
(***************************************************************************)
Operators == {OpGt, Op1Gt, Op2Gt, OpAmpGt}

\* The tokens of ts at the positions of keep, in the order of ts.
SelectAt(ts, keep) ==
  LET n     == Cardinality(keep)
      order == CHOOSE f \in [1..n -> keep] :
                 \A a, b \in 1..n : a < b => f[a] < f[b]
  IN  [k \in 1..n |-> ts[order[k]]]

\* Token i of ts is an operator of the resolution: it is one of the four
\* operator strings and is not the target of an operator right before it.
RECURSIVE ActsAsOperator(_, _)
ActsAsOperator(ts, i) ==
  /\ ts[i] \in Operators
  /\ (i = 1 \/ ~ActsAsOperator(ts, i - 1))

Returned == redir.state \in {"returned", "evaluated"}
Succeeded == Returned /\ redir.result[1].ok

\* C8 as stated: on success the command tokens are the input tokens that are
\* neither one of the four operator strings nor preceded by one, in order.
C8_Original ==
  Succeeded =>
    redir.result[1].value.command_tokens =
      SelectAt(redir.tokens,
               {i \in 1..Len(redir.tokens) :
                  /\ redir.tokens[i] \notin Operators
                  /\ (i = 1 \/ redir.tokens[i - 1] \notin Operators)})

\* C8 (amended): on success the command tokens are the input tokens that are
\* neither an operator of the resolution (one of the four operator strings
\* that is not itself the target of the operator before it) nor the token
\* right after such an operator, unchanged and in the order of the input; and
\* cmd arg 2> err.log yields the command tokens cmd arg, no stdout target and
\* the stderr target err.log.
C8_CommandTokens ==
  Succeeded =>
    /\ redir.result[1].value.command_tokens =
         SelectAt(redir.tokens,
                  {i \in 1..Len(redir.tokens) :
                     /\ ~ActsAsOperator(redir.tokens, i)
                     /\ (i = 1 \/ ~ActsAsOperator(redir.tokens, i - 1))})
    /\ redir.tokens = TokensErrLog =>
         redir.result[1].value =
           [command_tokens |-> <<TokCmd, TokArg>>,
            stdout_redirect |-> None,
            stderr_redirect |-> Some(TokErrLog)]

\* C8 witness: cmd arg 2> err.log has been resolved to cmd arg with the stderr
\* target err.log.
C8_Witness ==
  /\ redir.state = "returned"
  /\ redir.tokens = TokensErrLog
  /\ redir.result[1].ok
  /\ redir.result[1].value.command_tokens = <<TokCmd, TokArg>>
  /\ redir.result[1].value.stderr_redirect = Some(TokErrLog)

\* The error the documentation gives for operator op without a target.
NoFileError(op) ==
  [kind |-> "ParsingFail",
   msg  |-> IF op = Op2Gt
              THEN "no file specified for error output redirection"
              ELSE "no file specified for output redirection"]

LastToken == redir.tokens[Len(redir.tokens)]

LastTargetOf(ts, ops) ==
  LET at == {i \in 1..Len(ts) : ActsAsOperator(ts, i) /\ ts[i] \in ops}
  IN  IF at = {} THEN None
      ELSE Some(ts[(CHOOSE i \in at : \A j \in at : j <= i) + 1])

\* The token the next iteration of the resolver matches on.
NextToken == redir.tokens[redir.idx + 1]
Resolved == redir.state = "scanning" /\ redir'.state = "scanning"
              /\ redir'.idx > redir.idx

\* C10: several operators. An iteration on > or 1> with a target sets the
\* stdout target and leaves the stderr target; one on 2> sets the stderr target
\* and leaves the stdout target; one on &> sets both to the same path; an
\* ordinary token changes neither. On success each stream's target is the
\* target of the last operator of the resolution that names that stream, and
\* none when no operator names it.
C10_SeveralOperators ==
  /\ [][Resolved =>
          /\ NextToken \in {OpGt, Op1Gt} =>
               /\ redir'.stdout_redirect = Some(redir.tokens[redir.idx + 2])
               /\ redir'.stderr_redirect = redir.stderr_redirect
          /\ NextToken = Op2Gt =>
               /\ redir'.stderr_redirect = Some(redir.tokens[redir.idx + 2])
               /\ redir'.stdout_redirect = redir.stdout_redirect
          /\ NextToken = OpAmpGt =>
               /\ redir'.stdout_redirect = Some(redir.tokens[redir.idx + 2])
               /\ redir'.stderr_redirect = Some(redir.tokens[redir.idx + 2])
          /\ NextToken \notin Operators =>
               /\ redir'.stdout_redirect = redir.stdout_redirect
               /\ redir'.stderr_redirect = redir.stderr_redirect
       ]_vars
  /\ [](Succeeded =>
          /\ redir.result[1].value.stdout_redirect =
               LastTargetOf(redir.tokens, {OpGt, Op1Gt, OpAmpGt})
          /\ redir.result[1].value.stderr_redirect =
               LastTargetOf(redir.tokens, {Op2Gt, OpAmpGt}))

\* C10 witness: &> f > g has been resolved: the later > took over stdout only.
C10_Witness ==
  /\ redir.state = "returned"
  /\ redir.tokens = <<OpAmpGt, Str(<<"f">>), OpGt, Str(<<"g">>)>>
  /\ redir.result[1].ok
  /\ redir.result[1].value.stdout_redirect = Some(Str(<<"g">>))
  /\ redir.result[1].value.stderr_redirect = Some(Str(<<"f">>))

(***************************************************************************)
(* Properties of the command lookup                                        *)
(***************************************************************************)
\* C11: for every name and every registry, the lookup returns the builtin of
\* the name when there is one, even when an external of the name exists too;
\* otherwise the external of the name when there is one; otherwise nothing,
\* and then eval returns CommandNotFound carrying that very name and runs no
\* command.
C11_LookupPrecedence ==
  (call.op = "get_command" /\ call.state # "called") =>
    LET name == call.command_name
        isBuiltin == name \in DOMAIN call.reg.builtin
        isExternal == name \in DOMAIN call.reg.external
    IN  /\ isBuiltin =>
             call.command = Some([kind |-> "Builtin", name |-> name])
        /\ (~isBuiltin /\ isExternal) =>
             /\ call.command # None
             /\ call.command[1].kind = "External"
             /\ call.command[1].name = name
        /\ (~isBuiltin /\ ~isExternal) => call.command = None
        /\ call.state = "evaluated" =>
             IF isBuiltin \/ isExternal
               THEN /\ call.plan.next = "dispatch"
                    /\ <<call.plan.command>> = call.command
               ELSE /\ call.plan.next = "return"
                    /\ call.plan.error =
                         [kind |-> "CommandNotFound", command_name |-> name]

\* echo is a builtin and an external at once, and the builtin is about to run.
C11_Witness ==
  /\ call.op = "get_command"
  /\ call.state = "evaluated"
  /\ call.command_name = NameEcho
  /\ NameEcho \in DOMAIN call.reg.builtin
  /\ NameEcho \in DOMAIN call.reg.external
  /\ call.plan.next = "dispatch"
  /\ call.plan.command.kind = "Builtin"

(***************************************************************************)
(* Properties of Levenshtein                                               *)
(***************************************************************************)
DistanceReturned == call.op = "distance" /\ call.state = "returned"

\* C12: distance(s, s) = 0; distance(s, "") = distance("", s) = the number
\* of characters of s; and distance(a, b) = distance(b, a).
C12_DistanceLaws ==
  DistanceReturned =>
    /\ call.s = call.t => call.value = Some(0)
    /\ call.t = <<>> => call.value = Some(Len(call.s))
    /\ call.s = <<>> => call.value = Some(Len(call.t))
    /\ call.value = Some(distance(call.t, call.s))

\* The distance of two different strings of the full length has been
\* computed: "aab" and "bba" differ in every position.
C12_Witness ==
  /\ DistanceReturned
  /\ call.s = Str(<<"a", "a", "b">>)
  /\ call.t = Str(<<"b", "b", "a">>)
  /\ call.value = Some(3)

\* The classic edit distance of the prefixes a[1..i] and b[1..j], by the
\* full two-dimensional recurrence.
RECURSIVE EditDistance(_, _, _, _)
EditDistance(a, b, i, j) ==
  IF i = 0 THEN j
  ELSE IF j = 0 THEN i
  ELSE Min(Min(EditDistance(a, b, i - 1, j) + 1,
               EditDistance(a, b, i, j - 1) + 1),
           EditDistance(a, b, i - 1, j - 1) + (IF a[i] = b[j] THEN 0 ELSE 1))

\* C13: the value the rolling single row gives is the classic edit distance
\* of the two strings; kitten/sitting is 3, flaw/lawn 2, Rust/rust 1.
C13_ClassicDistance ==
  DistanceReturned =>
    /\ call.value = Some(EditDistance(call.s, call.t, Len(call.s), Len(call.t)))
    /\ (call.s = Kitten /\ call.t = Sitting) => call.value = Some(3)
    /\ (call.s = Flaw /\ call.t = Lawn) => call.value = Some(2)
    /\ (call.s = RustCapital /\ call.t = RustSmall) => call.value = Some(1)

C13_Witness ==
  /\ DistanceReturned
  /\ call.s = Kitten
  /\ call.t = Sitting
  /\ call.value = Some(3)

\* The first index of candidates at the minimum distance to s.
FirstMinimum(s, candidates) ==
  CHOOSE k \in DOMAIN candidates :
    \A j \in DOMAIN candidates :
      /\ distance(s, candidates[k]) <= distance(s, candidates[j])
      /\ j < k => distance(s, candidates[k]) < distance(s, candidates[j])

\* C14: get_closest_with_threshold returns none exactly when every
\* candidate's distance exceeds the threshold, as for an empty list, and
\* otherwise the first candidate of the list at the minimum distance;
\* get_closest returns none only for an empty list and otherwise the first
\* candidate at the minimum distance.
C14_ClosestCandidate ==
  /\ (call.op = "get_closest_with_threshold" /\ call.state = "returned") =>
       LET within == {k \in DOMAIN call.vars :
                        distance(call.s, call.vars[k]) <= call.threshold[1]}
       IN  /\ call.value = None <=> within = {}
           /\ within # {} =>
                call.value = Some(call.vars[FirstMinimum(call.s, call.vars)])
  /\ (call.op = "get_closest" /\ call.state = "returned") =>
       /\ call.value = None <=> call.vars = <<>>
       /\ call.vars # <<>> =>
            call.value = Some(call.vars[FirstMinimum(call.s, call.vars)])

\* Two candidates tie at distance 1 from "a", within the threshold, and the
\* first of them has been returned.
C14_Witness ==
  /\ call.op = "get_closest_with_threshold"
  /\ call.state = "returned"
  /\ call.s = Str(<<"a">>)
  /\ call.vars = <<Str(<<"b">>), Str(<<"a", "b">>)>>
  /\ call.threshold = Some(1)
  /\ call.value = Some(Str(<<"b">>))

(***************************************************************************)
(* Properties of the suggestion                                            *)
(***************************************************************************)
Suggested == call.op = "handle_eval_error" /\ call.state = "returned"

EchoRegistered ==
  \E k \in DOMAIN call.reg.registered_names :
    call.reg.registered_names[k] = NameEcho

\* C16 as stated: with echo registered, the lookup of ehco is answered with
\* the suggestion echo, and the distance between ehco and echo is 1.
C16_Original ==
  /\ (Suggested /\ call.error.command_name = NameEhco /\ EchoRegistered) =>
       call.streams.term_err =
         <<NotFoundLine(NameEhco), DidYouMeanLine(NameEcho)>>
  /\ (DistanceReturned /\ call.s = NameEhco /\ call.t = NameEcho) =>
       call.value = Some(1)

\* C16: with echo registered, the lookup of ehco is answered with the
\* suggestion echo; the distance between ehco and echo is 2, the two
\* exchanged letters counting as two substitutions, which the threshold 2
\* of a name of four characters admits.
C16_EhcoSuggestsEcho ==
  /\ (Suggested /\ call.error.command_name = NameEhco /\ EchoRegistered) =>
       call.streams.term_err =
         <<NotFoundLine(NameEhco), DidYouMeanLine(NameEcho)>>
  /\ (DistanceReturned /\ call.s = NameEhco /\ call.t = NameEcho) =>
       call.value = Some(2)

C16_Witness ==
  /\ Suggested
  /\ call.error.command_name = NameEhco
  /\ EchoRegistered
  /\ call.streams.term_err[2] = DidYouMeanLine(NameEcho)

(***************************************************************************)
(* Properties of the line editor                                           *)
(***************************************************************************)
\* An iteration of the loop of handle_input that does not end the loop.
EditStep == pc = "reading" /\ tty # <<>> /\ pc' = "reading"

\* The bytes the second read of the iteration delivered.
SecondRead == SubSeq(tty, 2, Len(tty) - Len(tty'))

C19_EotLineNotDispatched ==
  [][(pc = "reading" /\ tty # <<>> /\ Head(tty) = 4 /\ pc' = "eval") =>
       /\ tty' = Tail(tty)
       /\ input_buffer' = input[1].buffer
       /\ EvalPlan(cmd_registry, input_buffer').next = "return"]_vars

(***************************************************************************)
(* Properties of the multi-line input                                      *)
(***************************************************************************)
\* The physical line at the head of the input, without its newline.
RECURSIVE PhysicalLine(_)
PhysicalLine(stdin) ==
  IF stdin = <<>> \/ stdin[1] = 10 THEN <<>>
  ELSE <<stdin[1]>> \o PhysicalLine(Tail(stdin))

C21_OneBuiltinPerName ==
  call.op = "CommandsRegistry::default" =>
    /\ \A i, j \in DOMAIN call.returned :
         call.returned[i].name = call.returned[j].name => i = j
    /\ DOMAIN call.builtin = {call.returned[i].name : i \in DOMAIN call.returned}
    /\ \A i \in DOMAIN call.returned :
         call.builtin[call.returned[i].name] = call.returned[i]
    /\ call.state = "panicked" =>
         /\ call.commands # <<>>
         /\ Head(call.commands).name \in DOMAIN call.builtin
    /\ (call.state = "builtins" /\ call.commands # <<>>
          /\ Head(call.commands).name \in DOMAIN call.builtin) =>
         ~ENABLED RegisterBuiltin

\* echo was registered, then a second command named echo: the call panicked
\* and the first command is still the entry.
C21_Witness ==
  /\ call.op = "CommandsRegistry::default"
  /\ call.state = "panicked"
  /\ Head(call.commands) = [kind |-> "Builtin", name |-> <<101, 99, 104, 111>>,
                            type |-> "BagagaCommand"]
  /\ call.builtin[<<101, 99, 104, 111>>].type = "EchoCommand"

\* The directories of PATH scanned so far, and whether a directory holds an
\* executable of a name.
ScannedDirs ==
  IF call.path = None \/ call.state = "builtins" THEN <<>>
  ELSE SubSeq(call.path[1], 1, Len(call.path[1]) - Len(call.dirs))
HoldsExecutable(dir, name) ==
  /\ ReadDir(dir) # <<>>
  /\ \E e \in ReadDir(dir)[1] : e.file_name = name /\ e.executable

\* C22: after the scan of PATH the external mapping holds an entry for
\* exactly the names found as executables in the directories of PATH, and
\* the path of each lies in the first directory, in the order of PATH, that
\* holds the executable: a later directory never overwrites it.
C22_FirstDirectoryWins ==
  (call.op = "CommandsRegistry::default"
     /\ call.state \in {"externals", "built"}) =>
    /\ DOMAIN call.external =
         {name \in {NameLs, NameEcho, NameCd, NameZz, NameExit} :
            \E i \in DOMAIN ScannedDirs : HoldsExecutable(ScannedDirs[i], name)}
    /\ \A name \in DOMAIN call.external :
         \E i \in DOMAIN ScannedDirs :
           /\ HoldsExecutable(ScannedDirs[i], name)
           /\ \A j \in 1..(i - 1) : ~HoldsExecutable(ScannedDirs[j], name)
           /\ call.external[name] =
                [kind |-> "External", name |-> name,
                 path |-> <<ScannedDirs[i], name>>]

\* PATH is /usr/bin:/bin, both hold ls: the entry of ls is the one of
\* /usr/bin after both have been scanned.
C22_Witness ==
  /\ call.op = "CommandsRegistry::default"
  /\ call.state = "built"
  /\ call.path = <<<<"/usr/bin", "/bin">>>>
  /\ call.external[<<108, 115>>].path = <<"/usr/bin", <<108, 115>>>>

\* C23: once the registry is built, registered_names is the sorted union of
\* the names of the two mappings: ascending, holding every builtin name and
\* every external name and no other, each name once, one that is in both
\* mappings too.
C23_SortedUnion ==
  (call.op = "CommandsRegistry::default" /\ call.state = "built") =>
    /\ \A i \in 1..(Len(call.registered_names) - 1) :
         StrLess(call.registered_names[i], call.registered_names[i + 1])
    /\ {call.registered_names[i] : i \in DOMAIN call.registered_names} =
         DOMAIN call.builtin \cup DOMAIN call.external
    /\ \A i, j \in DOMAIN call.registered_names :
         call.registered_names[i] = call.registered_names[j] => i = j

(***************************************************************************)
(* Properties of the dispatch of external commands                         *)
(***************************************************************************)
\* The latest child the shell has spawned.
LastChild == children[Len(children)]

\* C24: when the child of an external command cannot be spawned, or the wait
\* for it fails, eval returns CommandExecutionFail with the text of the
\* operating system's error and the shell goes on to report it; when the
\* child was spawned and waited for, eval returns success whatever status
\* the child exited with, and the step changes nothing of the shell but the
\* restored streams and the result.
C24_ExternalDispatch ==
  [][/\ (pc = "running" /\ dispatch[1].command.kind = "External"
           /\ pc' = "report") =>
          /\ \E text \in SpawnErrors :
               result' = <<[ok |-> FALSE,
                            error |-> [kind |-> "CommandExecutionFail",
                                       msg |-> text]]>>
          /\ children' = children
          /\ ended' = <<>>
     /\ (pc = "waiting" /\ pc' # "waiting") =>
          /\ pc' = "report"
          /\ ended' = <<>>
          /\ LastChild.state = "exited"
          /\ LastChild'.state = "reaped" => result' = <<[ok |-> TRUE, value |-> <<>>]>>
          /\ LastChild'.state # "reaped" =>
               result' = <<[ok |-> FALSE,
                            error |-> [kind |-> "CommandExecutionFail",
                                       msg |-> WaitError]]>>
          /\ <<termios, tty, input, input_buffer, term_out, term_err, fs,
               cmd_registry, iter>>' =
             <<termios, tty, input, input_buffer, term_out, term_err, fs,
               cmd_registry, iter>>
          /\ stdout' = StdoutHandle
          /\ stderr' = StderrHandle
          /\ dispatch' = <<>>]_vars

\* A child that exited with status 1 has been waited for, eval has returned
\* success, and nothing was written to the terminal's standard error.
C24_Witness ==
  /\ pc = "idle"
  /\ children # <<>>
  /\ LastChild.state = "reaped"
  /\ LastChild.status = 1
  /\ result = <<[ok |-> TRUE, value |-> <<>>]>>
  /\ term_err = <<>>

C26_RawModeNesting ==
  /\ [][/\ termios' # termios =>
             \/ pc = "idle" /\ pc' = "reading"
             \/ pc = "reading" /\ pc' = "eval"
        /\ (pc # "reading" /\ pc' = "reading") =>
             /\ pc = "idle"
             /\ ICANON \in termios
             /\ termios' = termios \ {ICANON, ECHO}
             /\ input'[1].original_termios = termios
        /\ (pc = "reading" /\ pc' = "reading") =>
             /\ iter' = iter
             /\ input'[1].original_termios = input[1].original_termios
        /\ pc' = "eval" =>
             /\ pc = "reading"
             /\ iter' = iter + 1
             /\ termios' = input[1].original_termios
             /\ ICANON \in termios']_vars
  /\ [](pc \in {"eval", "running", "waiting", "report"} =>
          ICANON \in termios /\ input = <<>>)
  /\ [](pc = "reading" => ICANON \notin termios /\ ECHO \notin termios)

\* In the second iteration an external command is running, and the terminal,
\* which started with echo on, is in canonical mode with echo on.
C26_Witness ==
  /\ iter = 2
  /\ pc = "waiting"
  /\ dispatch[1].command.kind = "External"
  /\ Len(children) = 2
  /\ termios = {ICANON, ECHO, ISIG}

\* C27: while the child of an external command runs, the shell does nothing:
\* the only step is the child's exit, and the streams, the result, the
\* terminal and the shell's place stay as they are; the shell leaves the
\* wait, restores the streams and goes on to the report and the next prompt
\* only when the child has exited, so it never does when the child never
\* exits.
C27_ShellWaitsForChild ==
  [][/\ (pc = "waiting" /\ LastChild.state = "running") =>
          /\ pc' = "waiting"
          /\ LastChild'.state = "exited"
          /\ stdout # StdoutHandle => stdout' # StdoutHandle
          /\ stderr # StderrHandle => stderr' # StderrHandle
          /\ <<result, dispatch, iter, input, input_buffer, termios, tty,
               ended>>' =
             <<result, dispatch, iter, input, input_buffer, termios, tty,
               ended>>
     /\ (pc = "waiting" /\ pc' # "waiting") => LastChild.state = "exited"
     /\ (pc = "running" /\ pc' = "waiting") =>
          /\ LastChild'.state = "running"
          /\ Len(children') = Len(children) + 1]_vars

\* The child of `ls > f` runs: the shell is in the wait and its stdout is
\* still the file.
C27_Witness ==
  /\ pc = "waiting"
  /\ LastChild.state = "running"
  /\ stdout # StdoutHandle
  /\ result = <<>>

(***************************************************************************)
(* Properties of the registry while the REPL runs                          *)
(***************************************************************************)
\* C28: no step of the REPL -- a lookup that finds a command or fails, the
\* dispatch of a builtin or of an external command, the report of an error
\* with its suggestion -- changes the builtin mapping, the external mapping
\* or registered_names.
C28_RegistryImmutable ==
  [][/\ cmd_registry'.builtin = cmd_registry.builtin
     /\ cmd_registry'.external = cmd_registry.external
     /\ cmd_registry'.registered_names = cmd_registry.registered_names]_vars

\* After a line whose command was not found and got a suggestion, and a line
\* that ran an external command, the registry is the one that was built.
C28_Witness ==
  /\ pc = "idle"
  /\ iter = 2
  /\ term_err = <<<<"{}: command not found", <<101, 104, 99, 111>>>>,
                  <<"did you mean \"{}\"?", <<101, 99, 104, 111>>>>>>
  /\ Len(children) = 1
  /\ LastChild.state = "reaped"
  /\ Len(cmd_registry.registered_names) = 7
  /\ DOMAIN cmd_registry.builtin \cap DOMAIN cmd_registry.external =
       {<<101, 99, 104, 111>>}

(***************************************************************************)
(* Properties of the line editor of InputHandler                           *)
(***************************************************************************)
\* C29: after any bytes -- insertions, backspaces, arrows, the up arrow,
\* ignored control bytes, bytes from 0x80 on -- the cursor is between 0 and
\* the length of the buffer and is an index at which the buffer can be
\* inserted into and removed before, so that no insert and no remove is
\* attempted at an index the String rejects.
C29_CursorInRange ==
  call.op = "InputHandler::input_loop" =>
    /\ call.ed.cursor_pos >= 0
    /\ call.ed.cursor_pos <= Len(call.ed.buffer)
    /\ is_char_boundary(call.ed.buffer, call.ed.cursor_pos)
    /\ call.state # "panicked"

(***************************************************************************)
(* Further properties of the tokenizer                                     *)
(***************************************************************************)
\* C30: the tokenizer never emits an empty token: in every state of the
\* scan of every line each token pushed so far has a character at least, and
\* an empty quoted string alone, "" or '', on the line or after a command,
\* adds no token.
C30_NoEmptyToken ==
  /\ \A k \in DOMAIN scan.tokens : Len(scan.tokens[k]) >= 1
  /\ scan.done =>
       /\ scan.line \in {<<34, 34>>, <<39, 39>>} => scan.tokens = <<>>
       /\ scan.line \in {<<97, 32, 34, 34>>, <<97, 32, 39, 39>>} =>
            scan.tokens = << <<97>> >>
       /\ scan.line = <<34, 34, 32, 97>> => scan.tokens = << <<97>> >>

\* The line a "" has been tokenized: its only token is a.
C30_Witness ==
  /\ scan.done
  /\ scan.line = <<97, 32, 34, 34>>
  /\ scan.tokens = << <<97>> >>

(***************************************************************************)
(* Properties of the order of eval's steps                                 *)
(***************************************************************************)
\* C31: eval creates or truncates the files of the redirections only once it
\* has found the command: when the command is not found, the redirections
\* are malformed or the line holds redirections only, eval returns its error
\* with every file and both stream handles as they were, and the report of
\* the error changes no file either.
C31_NoFileBeforeLookup ==
  [][/\ (pc = "eval" /\ pc' = "report") =>
          /\ fs' = fs
          /\ stdout' = stdout /\ stderr' = stderr
          /\ dispatch' = <<>>
     /\ (pc = "eval"
           /\ input_buffer \in {Typed(<<NameEhco, Op2Gt, TokF>>),
                                Typed(<<OpGt, TokF>>),
                                Typed(<<NameEcho, OpGt>>),
                                Typed(<<NameZz>>)}) =>
          /\ pc' = "report"
          /\ ~result'[1].ok
          /\ result'[1].error.kind \in
               {"CommandNotFound", "EmptyInput", "ParsingFail"}
     /\ (pc = "report" /\ ~result[1].ok) => fs' = fs]_vars

\* `echo a > f` wrote its line to f; then `ehco 2> f` was not found and
\* reported: f still holds the line.
C31_Witness ==
  /\ pc = "idle"
  /\ iter = 2
  /\ result # <<>>
  /\ ~result[1].ok
  /\ result[1].error = [kind |-> "CommandNotFound", command_name |-> NameEhco]
  /\ TokF \in DOMAIN fs
  /\ fs[TokF] = <<<<"{}", TokA>>>>
  /\ Len(term_err) = 2

\* C32: the error of a dispatched command is reported after the streams have
\* been restored: when the report starts both handles are the original ones,
\* also for a line with 2> or &> whose command failed, and the report of an
\* error other than EmptyInput adds its lines to the terminal's standard
\* error and writes to no file.
C32_ReportAfterRestore ==
  [][/\ (pc \in {"running", "waiting"} /\ pc' = "report") =>
          /\ stdout' = StdoutHandle
          /\ stderr' = StderrHandle
     /\ pc = "report" =>
          /\ stderr = StderrHandle
          /\ fs' = fs
          /\ term_out' = term_out
          /\ IF result[1].ok \/ result[1].error.kind = "EmptyInput"
               THEN term_err' = term_err
               ELSE /\ Len(term_err') > Len(term_err)
                    /\ SubSeq(term_err', 1, Len(term_err)) = term_err
                    /\ result[1].error.kind \in {"CommandExecutionFail", "ParsingFail"} =>
                         term_err' = Append(term_err,
                                            <<"\\x1b[31m{}\\x1b[0m", result[1].error.msg>>)]_vars

\* `ls &> g` could not be spawned: g was created and is empty, and the
\* error is on the terminal.
C32_Witness ==
  /\ pc = "idle"
  /\ iter = 1
  /\ children = <<>>
  /\ TokG \in DOMAIN fs
  /\ fs[TokG] = <<>>
  /\ term_err = <<<<"\\x1b[31m{}\\x1b[0m", "Permission denied (os error 13)">>>>

(***************************************************************************)
(* Properties of the resolver on quoted and escaped operators              *)
(***************************************************************************)
\* C33: the resolver sees the values of the tokens only: two lines that
\* tokenize to the same token values resolve to the same command tokens and
\* targets, or to the same error; so a token >, 1>, 2> or &> is an operator
\* whether it was written bare, in quotes or after a backslash: a ">" f
\* redirects the standard output of a to f.
C33_QuotingIsNotSeen ==
  (call.op = "Shell::eval" /\ Len(call.resolved) = 2) =>
    /\ call.tokens[1] = call.tokens[2] => call.resolved[1] = call.resolved[2]
    /\ call.lines[2] \in {<<97, 32, 34, 62, 34, 32, 102>>,
                          <<97, 32, 39, 62, 39, 32, 102>>,
                          <<97, 32, 92, 62, 32, 102>>} =>
         call.resolved[2] =
           [ok |-> TRUE,
            value |-> [command_tokens |-> << <<97>> >>,
                       stdout_redirect |-> << <<102>> >>,
                       stderr_redirect |-> <<>>]]

\* a 2> f and a "2>" \f have been resolved: the same tokens and the same
\* redirection of the standard error to f.
C33_Witness ==
  /\ call.op = "Shell::eval"
  /\ Len(call.resolved) = 2
  /\ call.lines = <<<<97, 32, 50, 62, 32, 102>>,
                    <<97, 32, 34, 50, 62, 34, 32, 92, 102>>>>
  /\ call.tokens[1] = call.tokens[2]
  /\ call.resolved[2].ok
  /\ call.resolved[2].value.stderr_redirect = << <<102>> >>

(***************************************************************************)
(* Further properties of the redirection resolver                          *)
(***************************************************************************)
\* C34: an iteration on an operator that has a token after it consumes that
\* token as its target whatever its value, an operator string too: the
\* target is that token, nothing is pushed and nothing fails, and the next
\* iteration matches the token after the target as it matches any token.
\* So > 2> f redirects the standard output to the file 2> and f is a command
\* token, and in > 2> > the third token is an operator without a target.
C34_TargetWhateverItsValue ==
  /\ [][(redir.state = "scanning" /\ redir.idx + 2 <= Len(redir.tokens)
           /\ NextToken \in Operators) =>
          /\ redir'.state = "scanning"
          /\ redir'.idx = redir.idx + 2
          /\ redir'.command_tokens = redir.command_tokens
          /\ redir'.result = <<>>
          /\ NextToken \in {OpGt, Op1Gt, OpAmpGt} =>
               redir'.stdout_redirect = <<redir.tokens[redir.idx + 2]>>
          /\ NextToken \in {Op2Gt, OpAmpGt} =>
               redir'.stderr_redirect = <<redir.tokens[redir.idx + 2]>>
       ]_vars
  /\ []((redir.state = "returned" /\ redir.tokens = <<OpGt, Op2Gt, TokF>>) =>
          redir.result[1] =
            [ok |-> TRUE,
             value |-> [command_tokens |-> <<TokF>>,
                        stdout_redirect |-> <<Op2Gt>>,
                        stderr_redirect |-> <<>>]])
  /\ []((redir.state = "returned"
           /\ redir.tokens = <<TokA, Op2Gt, OpAmpGt, TokG>>) =>
          redir.result[1] =
            [ok |-> TRUE,
             value |-> [command_tokens |-> <<TokA, TokG>>,
                        stdout_redirect |-> <<>>,
                        stderr_redirect |-> <<OpAmpGt>>]])
  /\ []((redir.state = "returned" /\ redir.tokens = <<OpGt, Op2Gt, OpGt>>) =>
          ~redir.result[1].ok)

\* > 2> f has been resolved: the standard output goes to the file 2>, the
\* standard error nowhere, and f is the command.
C34_Witness ==
  /\ redir.state = "returned"
  /\ redir.tokens = <<OpGt, Op2Gt, TokF>>
  /\ redir.result[1].ok
  /\ redir.result[1].value.stdout_redirect = <<Op2Gt>>
  /\ redir.result[1].value.command_tokens = <<TokF>>

(***************************************************************************)
(* Further properties of the line editor                                   *)
(***************************************************************************)
\* The number of bytes an iteration on ESC has taken after the ESC.
EscTaken == Len(tty) - Len(tty') - 1

\* C35, as stated: an ESC with two bytes after it takes both.
C35_Original ==
  [][(EditStep /\ Head(tty) = ESC /\ tty' # tty /\ Len(tty) >= 3) =>
       tty' = SubSeq(tty, 4, Len(tty))]_vars

\* C35: an ESC is followed by one read of at most two bytes, and what the
\* read delivers is taken from the terminal: both bytes, or one when the
\* read is short, or none at the end of the input.  The iteration does not
\* end the loop and leaves the buffer alone, and unless the read delivered [
\* and D or C it leaves the cursor alone: the bytes are not inserted and are
\* not a newline, an EOT or an erase key.
C35_EscapeTakesItsRead ==
  [][(EditStep /\ Head(tty) = ESC /\ tty' # tty) =>
       /\ EscTaken \in 0..2
       /\ tty' = SubSeq(tty, 2 + EscTaken, Len(tty))
       /\ Len(tty) >= 2 => EscTaken >= 1
       /\ pc' = "reading"
       /\ termios' = termios
       /\ input_buffer' = input_buffer
       /\ input'[1].buffer = input[1].buffer
       /\ ~(EscTaken = 2 /\ SecondRead \in {<<91, 68>>, <<91, 67>>}) =>
            input' = input]_vars

\* "x", ESC, newline, erase, "y": the read after the ESC took the newline and
\* the erase key, the loop goes on with "x" in the buffer and "y" to read.
C35_Witness ==
  /\ pc = "reading"
  /\ input[1].buffer = Str(<<"x">>)
  /\ input[1].cursor_pos = 1
  /\ tty = Str(<<"y">>) \o <<LF>>

(***************************************************************************)
(* Further properties of the redirected streams                            *)
(***************************************************************************)
\* The two streams are files of one path.
BothToOneFile ==
  /\ stdout.kind = "File"
  /\ stderr.kind = "File"
  /\ stdout.path = stderr.path

\* C36: on a line with &> f the dispatcher opens f once for each stream:
\* the file is truncated, and each stream gets a handle of its own at
\* offset 0.  The positions are independent: a line written through one
\* handle goes to that handle's offset and advances that handle only, so a
\* line written through the other handle afterwards goes to offset 0 again.
C36_TwoHandlesOneFile ==
  /\ [][(pc = "eval" /\ pc' = "running"
           /\ EvalPlan(cmd_registry, input_buffer).stdout_redirect # <<>>
           /\ EvalPlan(cmd_registry, input_buffer).stdout_redirect =
                EvalPlan(cmd_registry, input_buffer).stderr_redirect) =>
          LET f == EvalPlan(cmd_registry, input_buffer).stdout_redirect[1]
          IN  /\ stdout' = [kind |-> "File", path |-> f, offset |-> 0]
              /\ stderr' = [kind |-> "File", path |-> f, offset |-> 0]
              /\ fs'[f] = <<>>
              /\ dispatch'[1].original_stdout = <<stdout>>
              /\ dispatch'[1].original_stderr = <<stderr>>]_vars
  /\ [][(pc = "waiting" /\ pc' = "waiting" /\ BothToOneFile) =>
          LET f == stdout.path
              name == dispatch[1].command.name
              out == stdout'.offset - stdout.offset
              err == stderr'.offset - stderr.offset
          IN  /\ stdout' = [stdout EXCEPT !.offset = @ + out]
              /\ stderr' = [stderr EXCEPT !.offset = @ + err]
              /\ \/ /\ out = 0 /\ err = 0
                    /\ fs' = fs
                 \/ /\ out = 1 /\ err = 0
                    /\ fs'[f] = WriteAt(fs[f], stdout.offset, ChildOutputLine(name))
                 \/ /\ out = 0 /\ err = 1
                    /\ fs'[f] = WriteAt(fs[f], stderr.offset, ChildOutputLine(name))
                 \/ /\ out = 1 /\ err = 1
                    /\ fs'[f] = WriteAt(WriteAt(fs[f], stdout.offset,
                                                ChildOutputLine(name)),
                                        stderr.offset, ChildErrorLine(name))]_vars
  /\ []((pc = "waiting" /\ BothToOneFile) =>
          /\ stdout.offset <= 1
          /\ stderr.offset <= 1
          /\ Len(fs[stdout.path]) <= 1)

\* ls &> g has run and has written a line to each stream: each handle
\* stands at offset 1, and the file holds one line, the line written to the
\* standard error over the line written to the standard output.
C36_Witness ==
  /\ pc = "waiting"
  /\ stdout = [kind |-> "File", path |-> TokG, offset |-> 1]
  /\ stderr = [kind |-> "File", path |-> TokG, offset |-> 1]
  /\ fs[TokG] = <<ChildErrorLine(NameLs)>>

(***************************************************************************)
(* Totality of the tokenizer (checked under SpecTokRuns)                   *)
(***************************************************************************)
\* The position of the quote that is open at the end of a line, 0 when none
\* is: p characters are behind, a quote of kind open (0 for none) was opened
\* at position at.
RECURSIVE OpenQuoteFrom(_, _, _, _)
OpenQuoteFrom(line, p, open, at) ==
  IF p >= Len(line) THEN (IF open = 0 THEN 0 ELSE at)
  ELSE LET ch == line[p + 1]
       IN  IF ch = 92 THEN OpenQuoteFrom(line, p + 2, open, at)
           ELSE IF ch \in {34, 39} /\ open = 0
             THEN OpenQuoteFrom(line, p + 1, ch, p + 1)
           ELSE IF ch = open THEN OpenQuoteFrom(line, p + 1, 0, 0)
           ELSE OpenQuoteFrom(line, p + 1, open, at)

\* A text with its backslash escapes applied: each backslash is dropped and
\* the character after it kept.
RECURSIVE Unescaped(_)
Unescaped(text) ==
  IF text = <<>> THEN <<>>
  ELSE IF text[1] = 92
    THEN (IF Len(text) >= 2
            THEN <<text[2]>> \o Unescaped(SubSeq(text, 3, Len(text)))
            ELSE <<>>)
  ELSE <<text[1]>> \o Unescaped(Tail(text))

\* What follows the open quote of a line, escapes applied.
AfterOpenQuote(line) ==
  Unescaped(SubSeq(line, OpenQuoteFrom(line, 0, 0, 0) + 1, Len(line)))

\* C37: the tokenizer is total.  Every iteration takes at least one
\* character and none beyond the end of the line, the scan of every line
\* ends, and what it returns is a sequence of tokens, there being no error
\* to return.  On a line whose last quote is not closed, what follows the
\* opening quote up to the end of the line, its whitespace kept and its
\* escapes applied, is the end of the last token.
C37_TokenizerIsTotal ==
  /\ [][~scan.done =>
          \/ /\ scan'.done
             /\ scan.pos = Len(scan.line)
             /\ scan'.pos = scan.pos
          \/ /\ ~scan'.done
             /\ scan.pos < scan'.pos
             /\ scan'.pos <= Len(scan.line)]_vars
  /\ <>scan.done
  /\ [](scan.done =>
          /\ DOMAIN scan = DOMAIN TokStart(<<>>)
          /\ scan.tokens \in Seq(Seq(TokAlphabet \cup 0..127))
          /\ (OpenQuoteFrom(scan.line, 0, 0, 0) # 0) =
               (scan.in_single_quote \/ scan.in_double_quote)
          /\ (OpenQuoteFrom(scan.line, 0, 0, 0) # 0
                /\ AfterOpenQuote(scan.line) # <<>>) =>
               /\ scan.tokens # <<>>
               /\ EndsWith(scan.tokens[Len(scan.tokens)],
                           AfterOpenQuote(scan.line)))
  /\ []((scan.done /\ scan.line = <<34, 97, 32, 98>>) =>
          scan.tokens = << <<97, 32, 98>> >>)
  /\ []((scan.done /\ scan.line = <<97, 39, 92, 32>>) =>
          scan.tokens = << <<97, 32>> >>)
  /\ []((scan.done /\ scan.line = <<97, 32, 34>>) =>
          scan.tokens = << <<97>> >>)

\* The line "a b, its quote never closed, has been tokenized: it has one
\* token, a b.
C37_Witness ==
  /\ scan.done
  /\ scan.in_double_quote
  /\ scan.line = <<34, 97, 32, 98>>
  /\ scan.tokens = << <<97, 32, 98>> >>

====
